---- MODULE Spec2Model ----
(***************************************************************************)
(* WindowMaster host controller.                                           *)
(*                                                                         *)
(* The coordinator (host-controller/src/core.rs, Runtime), the HID worker  *)
(* (host-controller/src/backend/hidapi/control.rs, Runtime and Device) and *)
(* the channels between them (Core::run).                                  *)
(*                                                                         *)
(* Encodings.  Option<StreamId> is 0 (None) or a stream id in Streams.     *)
(* A Binding is a pair: <<"Direct", s>>, <<"ActiveWindow", 0>> or          *)
(* <<"DefaultDevice", 0>>; Option<Binding> adds <<"None", 0>>.  A          *)
(* ChannelId is <<device, index>>.  StreamState is [volume, muted] with    *)
(* the f32 volume drawn from the levels 0..MaxVolume.  The binding graph   *)
(* is its edge set (zero-degree nodes are not observable through           *)
(* neighbors_of_left / neighbors_of_right, the only queries the            *)
(* coordinator makes).                                                     *)
(***************************************************************************)
EXTENDS Integers, Sequences, FiniteSets, TLC

\* ---------------------------------------------------------------- bounds
NumStreams == 2      \* stream ids 1..NumStreams
NumDevices == 1      \* device ids 0..NumDevices-1: the DeviceIds the worker allocates
NumChannels == 2     \* channel indices 0..NumChannels-1 of each device
MaxVolume == 0       \* volume levels 0..MaxVolume
MaxOpenMenus == 1    \* OpenMenu arrives while fewer than this many other channels have a menu
MaxBacklog == 0      \* an event arrives while at most this many messages are in the channels
NumSysStreams == 1   \* stream ids 1..NumSysStreams are reported with the HID worker running
TimeStep == 250      \* the clock advances by this many milliseconds
MaxTime == 1000      \* the clock stops at this many milliseconds
MaxSteps == 2        \* an input report carries -MaxSteps..MaxSteps encoder steps
NumPressChannels == 1 \* input reports use the channel indices 0..NumPressChannels-1
NumPlugKeys == 2     \* SpecPlug: the Rev1 devices that are plugged and unplugged
NumPlugIds == 3      \* SpecPlug: device ids 0..NumPlugIds-1 are allocated
MaxPlugBacklog == 2  \* SpecPlug: the worker sends while at most this many inputs wait

Streams == 1 .. NumStreams
Devices == 0 .. (NumDevices - 1)
Channels == Devices \X (0 .. (NumChannels - 1))
Volumes == 0 .. MaxVolume
NoStream == 0
OptStreams == {NoStream} \cup Streams

\* ------------------------------------------------------------ data types
StreamStates == [volume : Volumes, muted : BOOLEAN]

\* StreamState::default(): volume 0.0, muted false
DefaultState == [volume |-> 0, muted |-> FALSE]

Direct(s) == <<"Direct", s>>
ActiveWindow == <<"ActiveWindow", 0>>
DefaultDevice == <<"DefaultDevice", 0>>
NoBinding == <<"None", 0>>
Bindings == {ActiveWindow, DefaultDevice} \cup {Direct(s) : s \in Streams}

\* The name the audio adapter reports for a stream (stream_info.name()).
\* Stream 2 sorts before stream 1; streams 1 and 3 have equal names.
StreamName(s) == s % 2

VARIABLES
    streams,          \* Runtime.streams: registered id -> [name, state]
    bindings,         \* Runtime.bindings: set of edges <<channel, binding>>
    menus,            \* Runtime.menus: channel -> [options, current_index]
    window_focus,     \* Runtime.window_focus
    default_device,   \* Runtime.default_device
    control_output,   \* channel control_output_tx -> control_output_rx (FIFO)
    audio_control,    \* channel audio_control_tx -> audio_control_rx (FIFO)
    control_input,    \* channel control_input_tx -> control_input_rx (FIFO)
    devices,          \* HID worker Runtime.devices: device id -> the channels' ChannelState
    device_keys,      \* HID worker Runtime.device_keys: device id -> DeviceKey
    next_device_id,   \* DeviceId::new, NEXT_ID
    now,              \* Instant::now(), in milliseconds
    menu_blink_timer, \* MENU_BLINK_TIMER: NoTimeout until first used
    leds,             \* DeviceKey -> the indices lit by the last Output report written
    press_log,        \* history: channel -> the button's current or last press
    audio_event,      \* channel audio_event_tx -> audio_event_rx (FIFO)
    task,             \* Core::run: each of the three tasks, "running" or "returned"
    run_returned,     \* Core::run has returned
    menu_log,         \* history: the last OpenMenu handled and the menu it replaced
    device_log,       \* history: device id -> what the worker has sent about it
    stream_log,       \* history: stream id -> what the audio events say of it
    core_log,         \* history: how the coordinator's last iteration ended
    host_link,        \* firmware System.host_link: the UsbHid link's staged Report
    panicked,         \* firmware: a panic has stopped the main loop
    link_log,         \* history: the link's last operation and the Report before it
    quadrature,       \* firmware: one Quadrature encoder, its old_index
    encoder_log,      \* history: the samples and the results of the encoder's polls
    bigraph,          \* a BiGraph<ChannelId, Binding> under its own operations
    graph_log,        \* history: the last operation on bigraph and what it returned
    id_calls,         \* thread -> where its call of DeviceId::new stands
    ids_log,          \* history: the identifiers DeviceId::new has returned
    system,           \* firmware System: its channels' encoders and indicators
    run_at,           \* firmware System::run: the statement of the loop that is next
    run_log,          \* history: the last statement of System::run's loop
    adapter,          \* audio adapter Runtime: its registries and the streams' volumes
    adapter_log,      \* history: the audio adapter's last iteration
    input_log         \* history: the ControlInputs sent and taken

coreVars == <<streams, bindings, menus, window_focus, default_device>>
outVars == <<control_output, audio_control>>
workerVars == <<devices, device_keys, next_device_id>>
pollVars == <<now, menu_blink_timer, leds, press_log>>
taskVars == <<audio_event, task, run_returned>>
logVars == <<menu_log, device_log, stream_log, core_log>>
linkVars == <<host_link, panicked, link_log, quadrature, encoder_log>>
unitVars == <<bigraph, graph_log, id_calls, ids_log>>
tailVars == <<system, run_at, run_log, adapter, adapter_log, input_log>>
vars == <<streams, bindings, menus, window_focus, default_device,
          control_output, audio_control, control_input,
          devices, device_keys, next_device_id,
          now, menu_blink_timer, leds, press_log,
          audio_event, task, run_returned,
          menu_log, device_log, stream_log, core_log,
          host_link, panicked, link_log, quadrature, encoder_log,
          bigraph, graph_log, id_calls, ids_log,
          system, run_at, run_log, adapter, adapter_log, input_log>>

\* ------------------------------------------------------------- bigraph.rs
remove_left(g, left) == {e \in g : e[1] # left}
add_edge(g, left, right) == g \cup {<<left, right>>}
neighbors_of_left(g, left) == {e[2] : e \in {x \in g : x[1] = left}}
neighbors_of_right(g, right) == {e[1] : e \in {x \in g : x[2] = right}}

\* All orders in which an iterator may yield the elements of a set.
Orders(S) == {q \in [1 .. Cardinality(S) -> S] : \A x \in S : \E i \in DOMAIN q : q[i] = x}

\* ------------------------------------------------------------- messages
\* ControlOutput::ChannelOutput(device, index, out) for channel c = <<device, index>>
ChannelOutput(c, out) == [chan |-> c, out |-> out]
OutStateChanged(state) == <<"StateChanged", state>>
MenuOpened == <<"MenuOpened">>
MenuClosed == <<"MenuClosed">>
\* AudioControl::StreamControl { stream_id, stream_control }
StreamControl(sid, control) == [stream |-> sid, control |-> control]

\* control_output_tx.send(..).await for each message of msgs, in order
SendControl(msgs) == control_output' = control_output \o msgs
\* audio_control_tx.send(..).await for each message of msgs, in order
SendAudio(msgs) == audio_control' = audio_control \o msgs

\* ------------------------------------------------- core.rs: evaluation
\* Runtime::binding_stream_id (wf, dd: the window_focus and default_device slots)
binding_stream_id(binding, wf, dd) ==
    CASE binding[1] = "Direct" -> binding[2]
      [] binding[1] = "ActiveWindow" -> wf
      [] binding[1] = "DefaultDevice" -> dd

\* Runtime::get_binding_state: Option<&Stream> as a sequence of length <= 1
get_binding_state(binding, st, wf, dd) ==
    LET sid == binding_stream_id(binding, wf, dd)
    IN  IF sid # NoStream /\ sid \in DOMAIN st THEN <<st[sid]>> ELSE <<>>

\* A StateOrDefault whose fallback is a muted state
StateOrDefault_muted(opt) ==
    IF opt = <<>> THEN [volume |-> 0, muted |-> TRUE] ELSE opt[1].state

\* .map(|stream| stream.state).unwrap_or_default()
StateOrDefault(opt) == IF opt = <<>> THEN DefaultState ELSE opt[1].state

\* Runtime::update_channel: the sequences of ControlOutputs it may send, one
\* message per binding of the channel, in the iteration order of the neighbors
update_channel(c, g, st, wf, dd) ==
    { [i \in 1 .. Len(q) |->
          ChannelOutput(c, OutStateChanged(StateOrDefault(get_binding_state(q[i], st, wf, dd))))]
      : q \in Orders(neighbors_of_left(g, c)) }

\* An update_bound_channels that reaches one channel at most
update_bound_channels_one(binding, g, st, wf, dd) ==
    LET state == StateOrDefault(get_binding_state(binding, st, wf, dd))
    IN  { IF Len(q) = 0 THEN <<>> ELSE <<ChannelOutput(q[1], OutStateChanged(state))>>
          : q \in Orders(neighbors_of_right(g, binding)) }

\* Runtime::update_bound_channels: the state is evaluated once, then sent to
\* every channel joined to the binding
update_bound_channels(binding, g, st, wf, dd) ==
    LET state == StateOrDefault(get_binding_state(binding, st, wf, dd))
    IN  { [i \in 1 .. Len(q) |-> ChannelOutput(q[i], OutStateChanged(state))]
          : q \in Orders(neighbors_of_right(g, binding)) }

\* A Dispatch that resolves only the Direct bindings
Dispatch_direct(c, control) ==
    { LET r == SelectSeq(q, LAMBDA b : b[1] = "Direct")
      IN  [i \in 1 .. Len(r) |-> StreamControl(r[i][2], control)]
      : q \in Orders(neighbors_of_left(bindings, c)) }

\* The StreamControls sent for a volume or mute input on channel c: one per
\* binding of c that resolves to a stream id
Dispatch(c, control) ==
    { LET r == SelectSeq(q, LAMBDA b : binding_stream_id(b, window_focus, default_device) # NoStream)
      IN  [i \in 1 .. Len(r) |->
              StreamControl(binding_stream_id(r[i], window_focus, default_device), control)]
      : q \in Orders(neighbors_of_left(bindings, c)) }

\* A StreamOpened that adds the stream to the option lists of the open menus
StreamOpened_refresh(s, initial_state) ==
    /\ streams' = [x \in DOMAIN streams \cup {s} |->
                      IF x = s THEN [name |-> StreamName(s), state |-> initial_state]
                               ELSE streams[x]]
    /\ menus' = [x \in DOMAIN menus |->
                    [menus[x] EXCEPT !.options = Append(@, <<"Direct", s>>)]]
    /\ UNCHANGED control_output
    /\ UNCHANGED audio_control
    /\ UNCHANGED <<bindings, window_focus, default_device>>

\* ------------------------------------------------ core.rs: audio events
\* AudioEvent::StreamOpened { stream_id, stream_info }
StreamOpened(s, initial_state) ==
    /\ streams' = [x \in DOMAIN streams \cup {s} |->
                      IF x = s THEN [name |-> StreamName(s), state |-> initial_state]
                               ELSE streams[x]]
    /\ UNCHANGED control_output
    /\ UNCHANGED audio_control
    /\ UNCHANGED <<bindings, menus, window_focus, default_device>>

\* A StreamClosed that keeps the entry
StreamClosed_keep(s) ==
    /\ UNCHANGED streams
    /\ UNCHANGED control_output
    /\ UNCHANGED audio_control
    /\ UNCHANGED <<bindings, menus, window_focus, default_device>>

\* AudioEvent::StreamClosed { stream_id }
StreamClosed(s) ==
    /\ streams' = [x \in DOMAIN streams \ {s} |-> streams[x]]
    /\ UNCHANGED control_output
    /\ UNCHANGED audio_control
    /\ UNCHANGED <<bindings, menus, window_focus, default_device>>

\* AudioEvent::StreamEvent { stream_id, StreamEvent::StateChanged(state) }
StateChanged(s, state) ==
    /\ IF s \in DOMAIN streams
       THEN /\ streams' = [streams EXCEPT ![s].state = state]
            /\ \E a \in update_bound_channels(Direct(s), bindings, streams', window_focus, default_device),
                  b \in IF window_focus = s
                        THEN update_bound_channels(ActiveWindow, bindings, streams', window_focus, default_device)
                        ELSE {<<>>} :
                  SendControl(a \o b)
       ELSE /\ UNCHANGED streams
            /\ UNCHANGED control_output
    /\ UNCHANGED audio_control
    /\ UNCHANGED <<bindings, menus, window_focus, default_device>>

\* A WindowFocusChanged that evaluates the state before it assigns the slot
WindowFocusChanged_stale(x) ==
    /\ window_focus' = x
    /\ \E u \in update_bound_channels(ActiveWindow, bindings, streams, window_focus, default_device) :
          SendControl(u)
    /\ UNCHANGED audio_control
    /\ UNCHANGED <<streams, bindings, menus, default_device>>

\* AudioEvent::WindowFocusChanged { stream_id }
WindowFocusChanged(x) ==
    /\ window_focus' = x
    /\ \E u \in update_bound_channels(ActiveWindow, bindings, streams, x, default_device) :
          SendControl(u)
    /\ UNCHANGED audio_control
    /\ UNCHANGED <<streams, bindings, menus, default_device>>

\* AudioEvent::DefaultDeviceChanged { stream_id }
DefaultDeviceChanged(x) ==
    /\ default_device' = x
    /\ \E u \in update_bound_channels(DefaultDevice, bindings, streams, window_focus, x) :
          SendControl(u)
    /\ UNCHANGED audio_control
    /\ UNCHANGED <<streams, bindings, menus, window_focus>>

\* ---------------------------------------------- core.rs: control inputs
\* ControlInput::DeviceAdded(device_id, device_info)
DeviceAdded(d) ==
    /\ UNCHANGED control_output
    /\ UNCHANGED audio_control
    /\ UNCHANGED coreVars

\* A DeviceRemoved that drops the bindings and the menus of the device's channels
DeviceRemoved_unbind(d) ==
    /\ bindings' = {e \in bindings : e[1][1] # d}
    /\ menus' = [c \in {x \in DOMAIN menus : x[1] # d} |-> menus[c]]
    /\ UNCHANGED control_output
    /\ UNCHANGED audio_control
    /\ UNCHANGED <<streams, window_focus, default_device>>

\* ControlInput::DeviceRemoved(device_id)
DeviceRemoved(d) ==
    /\ UNCHANGED control_output
    /\ UNCHANGED audio_control
    /\ UNCHANGED coreVars

\* ChannelInput::SetVolume(volume)
SetVolume(c, volume) ==
    /\ \E u \in Dispatch(c, <<"SetVolume", volume>>) : SendAudio(u)
    /\ UNCHANGED control_output
    /\ UNCHANGED coreVars

\* ChannelInput::StepVolume(steps)
StepVolume(c, steps) ==
    /\ \E u \in Dispatch(c, <<"StepVolume", steps>>) : SendAudio(u)
    /\ UNCHANGED control_output
    /\ UNCHANGED coreVars

\* ChannelInput::SetMuted(muted)
SetMuted(c, muted) ==
    /\ \E u \in Dispatch(c, <<"SetMuted", muted>>) : SendAudio(u)
    /\ UNCHANGED control_output
    /\ UNCHANGED coreVars

\* ChannelInput::ToggleMuted
ToggleMuted(c) ==
    /\ \E u \in Dispatch(c, <<"ToggleMuted">>) : SendAudio(u)
    /\ UNCHANGED control_output
    /\ UNCHANGED coreVars

\* A SortedByName that leaves the streams in the order of their ids
SortedByName_id(S) == {q \in Orders(S) : \A i, j \in DOMAIN q : i < j => q[i] <= q[j]}

\* ------------------------------------------------------ core.rs: menus
\* The orders `options[3..].sort_by(name)` can leave the registered streams in:
\* ascending by name, streams of equal name in the HashMap's iteration order
SortedByName(S) ==
    {q \in Orders(S) : \A i, j \in DOMAIN q : i < j => StreamName(q[i]) <= StreamName(q[j])}

\* The option list built by Runtime::open_menu, options given by their bindings
\* ("None", "Default Device", "Active Window", then the streams by name)
MenuOptions(st) ==
    { <<NoBinding, DefaultDevice, ActiveWindow>> \o [i \in 1 .. Len(q) |-> Direct(q[i])]
      : q \in SortedByName(DOMAIN st) }

\* Runtime::close_menu, as a function of the menus
close_menu(m, c) == [x \in DOMAIN m \ {c} |-> m[x]]

\* A bind that keeps the edges the channel had
bind_keep(g, c, binding) ==
    IF binding # NoBinding THEN add_edge(g, c, binding) ELSE g

\* Runtime::bind, as a function of the binding graph
bind(g, c, binding) ==
    IF binding # NoBinding THEN add_edge(remove_left(g, c), c, binding)
                           ELSE remove_left(g, c)

\* An OpenMenu that keeps the menu a channel already has
OpenMenu_keep(c) ==
    /\ \E options \in MenuOptions(streams) :
          menus' = [x \in DOMAIN menus \cup {c} |->
                       IF x = c /\ c \notin DOMAIN menus
                       THEN [options |-> options, current_index |-> 0]
                       ELSE menus[x]]
    /\ SendControl(<<ChannelOutput(c, MenuOpened)>>)
    /\ UNCHANGED audio_control
    /\ UNCHANGED <<streams, bindings, window_focus, default_device>>

\* ChannelInput::OpenMenu -> Runtime::open_menu
OpenMenu(c) ==
    /\ \E options \in MenuOptions(streams) :
          menus' = [x \in DOMAIN menus \cup {c} |->
                       IF x = c THEN [options |-> options, current_index |-> 0]
                                ELSE menus[x]]
    /\ SendControl(<<ChannelOutput(c, MenuOpened)>>)
    /\ UNCHANGED audio_control
    /\ UNCHANGED <<streams, bindings, window_focus, default_device>>

\* A close_menu that says MenuClosed only when it removed a menu
CloseMenu_if_open(c) ==
    /\ menus' = close_menu(menus, c)
    /\ IF c \in DOMAIN menus
       THEN SendControl(<<ChannelOutput(c, MenuClosed)>>)
       ELSE UNCHANGED control_output
    /\ UNCHANGED audio_control
    /\ UNCHANGED <<streams, bindings, window_focus, default_device>>

\* ChannelInput::CloseMenu -> Runtime::close_menu
CloseMenu(c) ==
    /\ menus' = close_menu(menus, c)
    /\ SendControl(<<ChannelOutput(c, MenuClosed)>>)
    /\ UNCHANGED audio_control
    /\ UNCHANGED <<streams, bindings, window_focus, default_device>>

\* A NextIndex that wraps to the first option after the last
NextIndex_wrap(menu) == (menu.current_index + 1) % Len(menu.options)

\* (current_index + 1).min(options.len() - 1)
NextIndex(menu) ==
    IF menu.current_index + 1 < Len(menu.options) - 1
    THEN menu.current_index + 1
    ELSE Len(menu.options) - 1

\* current_index.saturating_sub(1)
PreviousIndex(menu) == IF menu.current_index = 0 THEN 0 ELSE menu.current_index - 1

\* ChannelInput::MenuNext -> Runtime::menu_next
MenuNext(c) ==
    /\ IF c \in DOMAIN menus
       THEN menus' = [menus EXCEPT ![c].current_index = NextIndex(menus[c])]
       ELSE UNCHANGED menus
    /\ UNCHANGED control_output
    /\ UNCHANGED audio_control
    /\ UNCHANGED <<streams, bindings, window_focus, default_device>>

\* ChannelInput::MenuPrevious -> Runtime::menu_previous
MenuPrevious(c) ==
    /\ IF c \in DOMAIN menus
       THEN menus' = [menus EXCEPT ![c].current_index = PreviousIndex(menus[c])]
       ELSE UNCHANGED menus
    /\ UNCHANGED control_output
    /\ UNCHANGED audio_control
    /\ UNCHANGED <<streams, bindings, window_focus, default_device>>

\* ChannelInput::MenuSelect -> Runtime::menu_select: bind (remove_left,
\* add_edge, update_channel), then close_menu
MenuSelect(c) ==
    /\ IF c \in DOMAIN menus
       THEN /\ bindings' = bind(bindings, c, menus[c].options[menus[c].current_index + 1])
            /\ menus' = close_menu(menus, c)
            /\ \E u \in update_channel(c, bindings', streams, window_focus, default_device) :
                  SendControl(u \o <<ChannelOutput(c, MenuClosed)>>)
       ELSE /\ UNCHANGED <<bindings, menus>>
            /\ UNCHANGED control_output
    /\ UNCHANGED audio_control
    /\ UNCHANGED <<streams, window_focus, default_device>>

\* ------------------------------------------------ control.rs: messages
\* ControlInput::DeviceAdded(device_id, device_info)
InDeviceAdded(d) == <<"DeviceAdded", d>>
\* ControlInput::DeviceRemoved(device_id)
InDeviceRemoved(d) == <<"DeviceRemoved", d>>
\* ControlInput::ChannelInput(device_id, index, input) for channel c = <<device_id, index>>
InChannelInput(c, input) == <<"ChannelInput", c, input>>

\* ControlHandle::blocking_send for each message of msgs, in order
SendInput(msgs) == control_input' = control_input \o msgs

\* A coordinator that opens the menu of the channel next to the one named in
\* the input
HandleChannelInput_neighbour(c, input) ==
    CASE input[1] = "SetVolume" -> SetVolume(c, input[2])
      [] input[1] = "StepVolume" -> StepVolume(c, input[2])
      [] input[1] = "SetMuted" -> SetMuted(c, input[2])
      [] input[1] = "ToggleMuted" -> ToggleMuted(c)
      [] input[1] = "OpenMenu" -> OpenMenu(<<c[1], (c[2] + 1) % NumChannels>>)
      [] input[1] = "CloseMenu" -> CloseMenu(c)
      [] input[1] = "MenuNext" -> MenuNext(c)
      [] input[1] = "MenuPrevious" -> MenuPrevious(c)
      [] input[1] = "MenuSelect" -> MenuSelect(c)

\* --------------------------------------- core.rs: the control input arm
\* match channel_input { .. }
HandleChannelInput(c, input) ==
    CASE input[1] = "SetVolume" -> SetVolume(c, input[2])
      [] input[1] = "StepVolume" -> StepVolume(c, input[2])
      [] input[1] = "SetMuted" -> SetMuted(c, input[2])
      [] input[1] = "ToggleMuted" -> ToggleMuted(c)
      [] input[1] = "OpenMenu" -> OpenMenu(c)
      [] input[1] = "CloseMenu" -> CloseMenu(c)
      [] input[1] = "MenuNext" -> MenuNext(c)
      [] input[1] = "MenuPrevious" -> MenuPrevious(c)
      [] input[1] = "MenuSelect" -> MenuSelect(c)

\* Some(Incoming::ControlInput(control_input)) => match control_input { .. }
HandleControlInput(m) ==
    CASE m[1] = "DeviceAdded" -> DeviceAdded(m[2])
      [] m[1] = "DeviceRemoved" -> DeviceRemoved(m[2])
      [] m[1] = "ChannelInput" -> HandleChannelInput(m[2], m[3])

\* The coordinator takes the next ControlInput (control_input_rx.recv())
RecvControlInput ==
    /\ control_input # <<>>
    /\ control_input' = Tail(control_input)
    /\ HandleControlInput(Head(control_input))
    /\ UNCHANGED <<workerVars, pollVars, taskVars, logVars, linkVars, unitVars, tailVars>>

\* ------------------------------------- hidapi/control.rs: the HID worker
ChannelIndices == 0 .. (NumChannels - 1)

\* Option<Instant>::None for long_press_timeout
NoTimeout == -1

\* rev1::DeviceState::new: the ChannelState of every channel
NewChannelState ==
    [pressed |-> FALSE, long_pressed |-> FALSE, long_press_timeout |-> NoTimeout,
     menu_open |-> FALSE, state |-> DefaultState]

\* The DeviceKeys of the HID devices that can be plugged in: the key ForeignKey
\* is a device of another vendor, the others are WindowMaster Rev1 devices
ForeignKey == 0
DeviceKeys == 0 .. NumDevices

\* The keys and the device ids of SpecPlug
PlugKeys == 0 .. NumPlugKeys
PlugIds == 0 .. (NumPlugIds - 1)

\* A detect that takes every HID device for a Rev1
detect_any(key) == TRUE

\* DeviceModel::detect: Some(Rev1) for the WindowMaster vendor and product id
detect(key) == key # ForeignKey

\* A channel_output that takes no note of MenuClosed
channel_output_sticky(channel, out) ==
    CASE out[1] = "StateChanged" -> [channel EXCEPT !.state = out[2]]
      [] out[1] = "MenuOpened" -> [channel EXCEPT !.menu_open = TRUE]
      [] out[1] = "MenuClosed" -> channel

\* Device::channel_output, on the ChannelState of the addressed channel
channel_output(channel, out) ==
    CASE out[1] = "StateChanged" -> [channel EXCEPT !.state = out[2]]
      [] out[1] = "MenuOpened" -> [channel EXCEPT !.menu_open = TRUE]
      [] out[1] = "MenuClosed" -> [channel EXCEPT !.menu_open = FALSE]

\* The devices after the ControlOutputs of seq (an output for an unknown
\* device is logged and dropped)
RECURSIVE ApplyOutputs(_, _)
ApplyOutputs(devs, seq) ==
    IF seq = <<>> THEN devs
    ELSE LET m == Head(seq)
             d == m.chan[1]
             index == m.chan[2]
         IN  ApplyOutputs(
                 IF d \in DOMAIN devs
                 THEN [devs EXCEPT ![d][index] = channel_output(@, m.out)]
                 ELSE devs,
                 Tail(seq))

\* The enumerations of devices with the given keys after which at most `ids`
\* DeviceIds are allocated
Plugged(keys, ids) ==
    {infos \in SUBSET keys :
        next_device_id
            + Cardinality({k \in infos : detect(k) /\ \A d \in DOMAIN device_keys :
                                                        device_keys[d] # k})
          <= ids}

\* Runtime::run, `if refresh_timer.poll() { .. }`: infos are the keys of the
\* devices present now.  Devices no longer present are removed, the Rev1
\* devices that became present get a new DeviceId each.
Refresh(infos) ==
    LET to_remove == {d \in DOMAIN device_keys : device_keys[d] \notin infos}
        kept == DOMAIN device_keys \ to_remove
        added == {k \in infos : detect(k) /\ \A d \in kept : device_keys[d] # k}
    IN  /\ \E r \in Orders(to_remove), a \in Orders(added) :
              LET id(k) == next_device_id + (CHOOSE i \in DOMAIN a : a[i] = k) - 1
                  ids == {id(k) : k \in added}
              IN  /\ device_keys' = [d \in kept \cup ids |->
                                        IF d \in kept THEN device_keys[d]
                                        ELSE CHOOSE k \in added : id(k) = d]
                  /\ devices' = [d \in kept \cup ids |->
                                    IF d \in kept THEN devices[d]
                                    ELSE [i \in ChannelIndices |-> NewChannelState]]
                  /\ next_device_id' = next_device_id + Cardinality(added)
                  /\ SendInput([i \in DOMAIN r |-> InDeviceRemoved(r[i])]
                               \o [i \in DOMAIN a |-> InDeviceAdded(id(a[i]))])
    /\ UNCHANGED <<coreVars, outVars, pollVars, taskVars>>

\* The DeviceKeys registered in a BiHashMap<DeviceId, DeviceKey>
RegisteredKeys(keys) == {keys[d] : d \in DOMAIN keys}

\* An insert that overwrites: the pairs with the same left or right value
\* give way to the new pair (BiHashMap::insert)
insert_overwrite(keys, left, right) ==
    << [d \in {x \in DOMAIN keys : keys[x] # right} \cup {left} |->
           IF d = left THEN right ELSE keys[d]] >>

\* BiHashMap::insert_no_overwrite: Err, here <<>>, when the left or the right
\* value is in the map already, else Ok with the pair inserted
insert_no_overwrite(keys, left, right) ==
    IF left \in DOMAIN keys \/ right \in RegisteredKeys(keys) THEN <<>>
    ELSE << [d \in DOMAIN keys \cup {left} |-> IF d = left THEN right ELSE keys[d]] >>

\* The tasks Core::run joins: audio_task, control_task and runtime_task
Tasks == {"audio", "control", "core"}
Returned(t) == [task EXCEPT ![t] = "returned"]

\* Runtime::run, the refresh, for one device that became present:
\* device_keys.insert_no_overwrite(device_id, device_key).expect(..), then
\* devices.insert and the DeviceAdded.  The panic of expect unwinds the
\* worker, which drops its Runtime and the ControlHandle in it
Register(device_id, device_key) ==
    /\ task["control"] = "running"
    /\ LET inserted == insert_no_overwrite(device_keys, device_id, device_key)
       IN  IF inserted = <<>>
           THEN /\ task' = Returned("control")
                /\ UNCHANGED <<devices, device_keys, control_input>>
           ELSE /\ device_keys' = inserted[1]
                /\ devices' = [d \in DOMAIN devices \cup {device_id} |->
                                  IF d = device_id
                                  THEN [i \in ChannelIndices |-> NewChannelState]
                                  ELSE devices[d]]
                /\ SendInput(<<InDeviceAdded(device_id)>>)
                /\ UNCHANGED task
    /\ UNCHANGED <<coreVars, outVars, pollVars, audio_event, run_returned>>

\* Runtime::run, the refresh, for one device that is no longer present:
\* device_keys.remove_by_left, devices.remove and the DeviceRemoved
Unregister(device_id) ==
    /\ task["control"] = "running"
    /\ device_id \in DOMAIN device_keys
    /\ device_keys' = [d \in DOMAIN device_keys \ {device_id} |-> device_keys[d]]
    /\ devices' = [d \in DOMAIN devices \ {device_id} |-> devices[d]]
    /\ SendInput(<<InDeviceRemoved(device_id)>>)
    /\ UNCHANGED <<coreVars, outVars, pollVars, taskVars, next_device_id>>

\* Core::run: who holds the ends of the channels.  The AudioHandle (moved
\* into the audio adapter's task) holds audio_event_tx and audio_control_rx,
\* the ControlHandle (moved into the HID worker's task) holds
\* control_input_tx and control_output_rx; each is dropped when its task
\* returns.  The other ends are fields of Core::run's local `runtime`, which
\* lives until Core::run returns.
AudioHandleDropped == task["audio"] = "returned"
ControlHandleDropped == task["control"] = "returned"
RuntimeDropped == run_returned

\* Runtime::run, the try_recv loop: the HID worker takes the ControlOutputs
\* until the channel is empty (Err(Empty): on to the devices' poll) or empty
\* with its sender dropped (Err(Closed): break 'main, the worker returns)
RecvControlOutput ==
    /\ task["control"] = "running"
    /\ ~(control_output = <<>> /\ ~RuntimeDropped)
    /\ control_output' = <<>>
    /\ devices' = ApplyOutputs(devices, control_output)
    /\ task' = IF RuntimeDropped THEN Returned("control") ELSE task
    /\ UNCHANGED <<coreVars, audio_control, control_input, device_keys, next_device_id>>
    /\ UNCHANGED <<pollVars, audio_event, run_returned, logVars, linkVars, unitVars, tailVars>>

\* The audio adapter takes the next AudioControl, or returns when the channel
\* is empty with its sender dropped (handle.recv(): None => break)
RecvAudioControl ==
    /\ task["audio"] = "running"
    /\ ~(audio_control = <<>> /\ ~RuntimeDropped)
    /\ audio_control' = IF audio_control = <<>> THEN <<>> ELSE Tail(audio_control)
    /\ task' = IF audio_control = <<>> THEN Returned("audio") ELSE task
    /\ UNCHANGED <<coreVars, control_output, control_input, workerVars>>
    /\ UNCHANGED <<pollVars, audio_event, run_returned, logVars, linkVars, unitVars, tailVars>>

\* ------------------------------------------- hidapi/control.rs: Device::poll
LONG_PRESS_DURATION == 500
MENU_BLINK_PERIOD == 1000
MENU_BLINK_DURATION == 250

\* The channel indices the input reports use, and the input reports
\* (rev1::Input: the encoders' steps and the buttons' bits)
PressIndices == 0 .. (NumPressChannels - 1)
Reports ==
    [buttons : SUBSET PressIndices,
     encoders : {e \in [ChannelIndices -> (0 - MaxSteps) .. MaxSteps] :
                    \A i \in ChannelIndices \ PressIndices : e[i] = 0}]

\* A poll_encoder that sends one menu input whatever the number of steps
poll_encoder_once(channel, steps) ==
    IF steps = 0 THEN <<>>
    ELSE IF channel.menu_open
         THEN << IF steps > 0 THEN <<"MenuNext">> ELSE <<"MenuPrevious">> >>
         ELSE << <<"StepVolume", steps>> >>

\* Device::poll, `if steps != 0 { .. }`: the ChannelInputs sent for the
\* encoder of a channel
poll_encoder(channel, steps) ==
    IF steps = 0 THEN <<>>
    ELSE IF channel.menu_open
         THEN [k \in 1 .. (IF steps > 0 THEN steps ELSE 0 - steps) |->
                  IF steps > 0 THEN <<"MenuNext">> ELSE <<"MenuPrevious">>]
         ELSE << <<"StepVolume", steps>> >>

\* A poll_button whose long press fires with the rising edge
poll_button_eager(channel, pressed, t) ==
    IF pressed
    THEN LET timeout == IF ~channel.pressed THEN t ELSE channel.long_press_timeout
             fire == timeout # NoTimeout /\ t >= timeout
         IN  [channel |-> [channel EXCEPT
                              !.pressed = TRUE,
                              !.long_press_timeout = IF fire THEN NoTimeout ELSE timeout,
                              !.long_pressed = IF fire THEN TRUE ELSE @],
              inputs |-> IF fire
                         THEN << IF channel.menu_open THEN <<"CloseMenu">> ELSE <<"OpenMenu">> >>
                         ELSE <<>>]
    ELSE [channel |-> [channel EXCEPT
                          !.pressed = FALSE,
                          !.long_pressed = FALSE,
                          !.long_press_timeout = NoTimeout],
          inputs |-> IF channel.pressed /\ ~channel.long_pressed
                     THEN << IF channel.menu_open THEN <<"MenuSelect">> ELSE <<"ToggleMuted">> >>
                     ELSE <<>>]

\* Device::poll, `if pressed { .. } else { .. }; channel.pressed = pressed`:
\* the ChannelState after a report read at time t whose bit for the channel
\* is `pressed`, and the ChannelInputs sent for the button
poll_button(channel, pressed, t) ==
    IF pressed
    THEN LET timeout == IF ~channel.pressed THEN t + LONG_PRESS_DURATION
                        ELSE channel.long_press_timeout
             fire == timeout # NoTimeout /\ t >= timeout
         IN  [channel |-> [channel EXCEPT
                              !.pressed = TRUE,
                              !.long_press_timeout = IF fire THEN NoTimeout ELSE timeout,
                              !.long_pressed = IF fire THEN TRUE ELSE @],
              inputs |-> IF fire
                         THEN << IF channel.menu_open THEN <<"CloseMenu">> ELSE <<"OpenMenu">> >>
                         ELSE <<>>]
    ELSE [channel |-> [channel EXCEPT
                          !.pressed = FALSE,
                          !.long_pressed = FALSE,
                          !.long_press_timeout = NoTimeout],
          inputs |-> IF channel.pressed /\ ~channel.long_pressed
                     THEN << IF channel.menu_open THEN <<"MenuSelect">> ELSE <<"ToggleMuted">> >>
                     ELSE <<>>]

\* Device::poll, `for index in 0..rev1::NUM_CHANNELS`: the ControlInputs sent
\* for one report, for the channels from index on
RECURSIVE ReportInputs(_, _, _, _, _)
ReportInputs(d, channels, report, t, index) ==
    IF index >= NumChannels THEN <<>>
    ELSE LET sent == poll_encoder(channels[index], report.encoders[index])
                     \o poll_button(channels[index], index \in report.buttons, t).inputs
         IN  [k \in DOMAIN sent |-> InChannelInput(<<d, index>>, sent[k])]
             \o ReportInputs(d, channels, report, t, index + 1)

\* Device::poll, blink_phase without the remainder: only the first window
blink_phase_once(t, timer) == (t - timer) < MENU_BLINK_DURATION

\* Device::poll, blink_phase
blink_phase(t, timer) == ((t - timer) % MENU_BLINK_PERIOD) < MENU_BLINK_DURATION

\* Device::poll of device d with one input report to read: the report is
\* handled at the time it is read, then the Output report is written
\* (MENU_BLINK_TIMER is initialised by its first use)
Poll(d, report) ==
    /\ d \in DOMAIN devices
    /\ LET channels == [i \in ChannelIndices |->
                           poll_button(devices[d][i], i \in report.buttons, now).channel]
           timer == IF menu_blink_timer = NoTimeout THEN now ELSE menu_blink_timer
       IN  /\ devices' = [devices EXCEPT ![d] = channels]
           /\ SendInput(ReportInputs(d, devices[d], report, now, 0))
           /\ menu_blink_timer' = timer
           /\ leds' = [leds EXCEPT ![device_keys[d]] =
                          {i \in ChannelIndices :
                              channels[i].state.muted
                                  # (channels[i].menu_open /\ blink_phase(now, timer))}]
    /\ UNCHANGED <<coreVars, outVars, device_keys, next_device_id, now, taskVars>>

\* Device::poll of device d when a read or the write returns an error: the
\* reports of `read` were read and handled before the error; `writing` when
\* the error is the write's (MENU_BLINK_TIMER is used before the write).
\* Runtime::run discards the error (`device.poll(&self.handle).ok()`), the
\* device stays in devices and device_keys.
PollFails(d, read, writing) ==
    /\ d \in DOMAIN devices
    /\ writing => read # <<>>
    /\ IF read = <<>>
       THEN UNCHANGED <<devices, control_input>>
       ELSE /\ devices' = [devices EXCEPT ![d] =
                              [i \in ChannelIndices |->
                                  poll_button(devices[d][i], i \in read[1].buttons, now).channel]]
            /\ SendInput(ReportInputs(d, devices[d], read[1], now, 0))
    /\ menu_blink_timer' = IF writing /\ menu_blink_timer = NoTimeout THEN now
                           ELSE menu_blink_timer
    /\ UNCHANGED <<coreVars, outVars, device_keys, next_device_id, now, leds, taskVars>>

\* Device::poll of device d when the first read returns no data: the loop
\* breaks with should_output false, nothing is handled and nothing written
PollIdle(d) ==
    /\ d \in DOMAIN devices
    /\ UNCHANGED <<coreVars, outVars, control_input, workerVars, taskVars>>
    /\ UNCHANGED <<now, menu_blink_timer, leds>>

\* Instant::now(): time passes
Tick ==
    /\ now + TimeStep <= MaxTime
    /\ now' = now + TimeStep
    /\ UNCHANGED <<coreVars, outVars, control_input, workerVars, taskVars, logVars, linkVars, unitVars, tailVars>>
    /\ UNCHANGED <<menu_blink_timer, leds, press_log>>

\* History of the presses.  A press of a channel's button starts with a
\* report whose bit is set after one whose bit is clear (rise: when it was
\* read), and ends with the next report whose bit is clear (fall); sent are
\* the OpenMenu, CloseMenu, MenuSelect and ToggleMuted inputs sent for the
\* channel from the rising report to the falling report, each with the time,
\* the channel's menu_open flag and the report's bit when it was sent.
NoPress == [rise |-> NoTimeout, fall |-> NoTimeout, sent |-> <<>>]
ButtonInputs == {"OpenMenu", "CloseMenu", "MenuSelect", "ToggleMuted"}
NewInput == SubSeq(control_input', Len(control_input) + 1, Len(control_input'))
LogPress(d, report) ==
    press_log' =
        [c \in Channels |->
            IF c[1] # d THEN press_log[c]
            ELSE LET log == press_log[c]
                     held == log.rise # NoTimeout /\ log.fall = NoTimeout
                     bit == c[2] \in report.buttons
                     IsButton(m) == m[1] = "ChannelInput" /\ m[2] = c
                                       /\ m[3][1] \in ButtonInputs
                     inputs == SelectSeq(NewInput, IsButton)
                     sent == [k \in DOMAIN inputs |->
                                 [input |-> inputs[k][3][1],
                                  menu_open |-> devices[d][c[2]].menu_open,
                                  bit |-> bit,
                                  at |-> now]]
                 IN  IF bit /\ ~held THEN [rise |-> now, fall |-> NoTimeout, sent |-> sent]
                     ELSE IF held
                          THEN [log EXCEPT !.sent = @ \o sent,
                                           !.fall = IF bit THEN NoTimeout ELSE now]
                          ELSE log]

\* History of the hot-plug protocol.  For each device id, what the worker has
\* sent about it so far: nothing ("new"), its DeviceAdded ("added"), then its
\* DeviceRemoved ("removed"); "violated" once a DeviceAdded was not the first
\* message about the id, or a ChannelInput or a DeviceRemoved did not come
\* between its DeviceAdded and its DeviceRemoved.
RECURSIVE LogInputs(_, _)
LogInputs(log, msgs) ==
    IF msgs = <<>> THEN log
    ELSE LET msg == Head(msgs)
             d == IF msg[1] = "ChannelInput" THEN msg[2][1] ELSE msg[2]
             phase == CASE msg[1] = "DeviceAdded" ->
                              IF log[d] = "new" THEN "added" ELSE "violated"
                        [] msg[1] = "DeviceRemoved" ->
                              IF log[d] = "added" THEN "removed" ELSE "violated"
                        [] msg[1] = "ChannelInput" ->
                              IF log[d] = "added" THEN "added" ELSE "violated"
         IN  LogInputs([log EXCEPT ![d] = phase], Tail(msgs))
LogDevices == device_log' = LogInputs(device_log, NewInput)

\* History of the menus: no OpenMenu was the last event handled
NoOpen == [chan |-> <<>>, index |-> 0 - 1]

\* The coordinator takes the next ControlInput (control_input_rx.recv())
CoreTakes ==
    /\ control_input # <<>>
    /\ control_input' = Tail(control_input)
    /\ UNCHANGED <<coreVars, outVars, workerVars, pollVars, taskVars, logVars, linkVars, unitVars, tailVars>>

\* The coordinator sends a ChannelOutput for channel c
CoreSends(c, out) ==
    /\ SendControl(<<ChannelOutput(c, out)>>)
    /\ UNCHANGED <<coreVars, audio_control, control_input, workerVars, pollVars, taskVars, logVars, linkVars, unitVars, tailVars>>

\* ------------------------------------------------- firmware: link.rs
\* The firmware's channels that are modelled (Report.encoders is [i8; 6])
NumLinkChannels == 2
LinkIndices == 0 .. (NumLinkChannels - 1)

\* i8
I8Min == 0 - 128
I8Max == 127

\* Two's complement wrapping of an integer to i8
WrapI8(v) == ((v - I8Min) % (I8Max - I8Min + 1)) + I8Min

\* encoder.rs, enum Step and Step::value
Step == {"None", "Backward", "Forward"}
value(step) ==
    CASE step = "None" -> 0
      [] step = "Backward" -> 0 - 1
      [] step = "Forward" -> 1

\* Report, #[derive(Default)]; buttons and leds as the sets of their set bits
ReportDefault ==
    [encoders |-> [i \in LinkIndices |-> 0], buttons |-> {}, leds |-> {}]

\* Report::reset that clears the first encoder only
reset_first(r) == [r EXCEPT !.encoders[0] = 0]

\* Report::reset
reset(r) == [r EXCEPT !.encoders = [i \in LinkIndices |-> 0]]

\* The Output bytes the host can send, as the sets of their set bits
OutputBytes == SUBSET LinkIndices

\* UsbHid::is_led_on
is_led_on(index) == index \in host_link.report.leds

\* UsbHid::update_encoder with a saturating sum
update_encoder_saturating(index, step, overflow_checks) ==
    /\ ~panicked
    /\ LET sum == host_link.report.encoders[index] + value(step)
           sat == IF sum > I8Max THEN I8Max ELSE IF sum < I8Min THEN I8Min ELSE sum
       IN  host_link' = [host_link EXCEPT !.report.encoders[index] = sat]
    /\ UNCHANGED panicked

\* UsbHid::update_encoder: `self.report.encoders[index] += step.value()` on
\* an i8.  When the sum leaves the i8 range the build decides: with overflow
\* checks (the default of a debug build) the addition panics, without them
\* (the default of a release build) it wraps
update_encoder(index, step, overflow_checks) ==
    /\ ~panicked
    /\ LET sum == host_link.report.encoders[index] + value(step)
       IN  IF sum >= I8Min /\ sum <= I8Max
           THEN /\ host_link' = [host_link EXCEPT !.report.encoders[index] = sum]
                /\ UNCHANGED panicked
           ELSE /\ panicked' = overflow_checks
                /\ host_link' = IF overflow_checks THEN host_link
                                ELSE [host_link EXCEPT
                                         !.report.encoders[index] = WrapI8(sum)]

\* UsbHid::update_button
update_button(index, is_pressed) ==
    /\ ~panicked
    /\ host_link' = [host_link EXCEPT !.report.buttons =
                        IF is_pressed THEN @ \cup {index} ELSE @ \ {index}]
    /\ UNCHANGED panicked

\* A UsbHid::poll that resets the report whether or not the push succeeded
UsbHid_poll_reset_always(polled, pushed, pulled) ==
    /\ ~panicked
    /\ host_link' = IF polled THEN [host_link EXCEPT !.report = reset(@)] ELSE host_link
    /\ UNCHANGED panicked

\* UsbHid::poll.  polled: what self.device.poll(..) returns; pushed:
\* push_input(..).is_ok(); pulled: <<byte>> when pull_raw_output returns
\* Ok(read_bytes) with read_bytes > 0 and the byte in the buffer, else <<>>.
\* The buffer is a local that is dropped at `//TODO leds`: nothing of it is
\* stored in self.report
UsbHid_poll(polled, pushed, pulled) ==
    /\ ~panicked
    /\ host_link' = IF polled /\ pushed
                    THEN [host_link EXCEPT !.report = reset(@)]
                    ELSE host_link
    /\ UNCHANGED panicked

\* What the firmware leaves alone: the host's state
LinkFrame ==
    /\ UNCHANGED <<coreVars, outVars, control_input, workerVars, pollVars, taskVars, logVars>>
    /\ UNCHANGED <<quadrature, encoder_log, unitVars, tailVars>>

\* History of the link: its last operation, what push_input returned in it
\* (polls only), the staged Report before it, and for every encoder the steps
\* the link owes the host: the sum of the step values update_encoder was
\* called with less the deltas of the reports the host accepted
NoOperation ==
    [op |-> "none", pushed |-> FALSE, before |-> ReportDefault,
     owed |-> [i \in LinkIndices |-> 0]]
LogLink(op, pushed) ==
    link_log' = [link_log EXCEPT !.op = op, !.pushed = pushed, !.before = host_link.report]

\* The same with the account of the owed steps: update_encoder(index, step)
\* adds step.value() to it, an accepted report takes its deltas off
LogStaged(op, pushed, index, step) ==
    link_log' =
        [op |-> op, pushed |-> pushed, before |-> host_link.report,
         owed |-> [i \in LinkIndices |->
                      CASE op = "update_encoder" /\ i = index -> link_log.owed[i] + value(step)
                        [] op = "poll" /\ pushed ->
                               link_log.owed[i] - host_link.report.encoders[i]
                        [] OTHER -> link_log.owed[i]]]

\* ---------------------------------------------- firmware: encoder.rs
\* What reading a pin returns: Ok(false), Ok(true) or Err(..)
PinRead == {"Low", "High", "Err"}

\* Quadrature.old_index: None
NoIndex == 0 - 1

\* fn index with the binary code of the two pins
pin_index_binary(a, b) ==
    CASE ~a /\ ~b -> 0
      [] a /\ ~b -> 1
      [] ~a /\ b -> 2
      [] a /\ b -> 3

\* fn index(a: bool, b: bool) -> i8
pin_index(a, b) ==
    CASE ~a /\ ~b -> 0
      [] a /\ ~b -> 1
      [] a /\ b -> 2
      [] ~a /\ b -> 3

\* Quadrature::poll, its result, with a jump of two indices taken for no step
Quadrature_poll_result_lenient(old_index, a, b) ==
    IF a = "Err" THEN "PinA"
    ELSE IF b = "Err" THEN "PinB"
    ELSE IF old_index = NoIndex THEN "None"
    ELSE LET new_index == pin_index(a = "High", b = "High")
         IN  CASE (new_index + (4 - old_index)) % 4 = 0 -> "None"
               [] (new_index + (4 - old_index)) % 4 = 1 -> "Forward"
               [] (new_index + (4 - old_index)) % 4 = 2 -> "None"
               [] (new_index + (4 - old_index)) % 4 = 3 -> "Backward"

\* Quadrature::poll, its result: Ok(Step::None), Ok(Step::Forward),
\* Ok(Step::Backward), or Err(Error::Skipped), Err(Error::PinA(..)),
\* Err(Error::PinB(..)); a and b are what reading pin_a and pin_b returns
\* (pin_b is not read when pin_a failed)
Quadrature_poll_result(old_index, a, b) ==
    IF a = "Err" THEN "PinA"
    ELSE IF b = "Err" THEN "PinB"
    ELSE IF old_index = NoIndex THEN "None"
    ELSE LET new_index == pin_index(a = "High", b = "High")
         IN  CASE (new_index + (4 - old_index)) % 4 = 0 -> "None"
               [] (new_index + (4 - old_index)) % 4 = 1 -> "Forward"
               [] (new_index + (4 - old_index)) % 4 = 2 -> "Skipped"
               [] (new_index + (4 - old_index)) % 4 = 3 -> "Backward"

\* Quadrature::poll that forgets old_index when a pin read fails
Quadrature_poll_forget(a, b) ==
    quadrature' = IF a = "Err" \/ b = "Err"
                  THEN [quadrature EXCEPT !.old_index = NoIndex]
                  ELSE [quadrature EXCEPT !.old_index = pin_index(a = "High", b = "High")]

\* Quadrature::poll, its effect: `?` returns before old_index is assigned
\* when a pin read fails, else self.old_index = Some(new_index)
Quadrature_poll(a, b) ==
    quadrature' = IF a = "Err" \/ b = "Err"
                  THEN quadrature
                  ELSE [quadrature EXCEPT !.old_index = pin_index(a = "High", b = "High")]

\* What the encoder leaves alone
EncoderFrame ==
    /\ UNCHANGED <<coreVars, outVars, control_input, workerVars, pollVars, taskVars, logVars>>
    /\ UNCHANGED <<host_link, panicked, link_log, unitVars, tailVars>>

\* History of the encoder.  position: the quadrature index of the last
\* sample by the table (0,0)=0, (1,0)=1, (1,1)=2, (0,1)=3; ticks: the samples
\* after the first; travelled: the net signed number of positions from the
\* first sample; gray: no two consecutive samples were two positions apart;
\* sum: the sum of Step::value() of the polls that returned a Step; result,
\* before, a, b: the last poll's result, the old_index before it and what
\* reading the pins returned in it
GrayPosition ==
    (<<"Low", "Low">> :> 0) @@ (<<"High", "Low">> :> 1)
        @@ (<<"High", "High">> :> 2) @@ (<<"Low", "High">> :> 3)
Moved(from, to) ==
    IF to = from THEN 0
    ELSE IF to = (from + 1) % 4 THEN 1
    ELSE IF from = (to + 1) % 4 THEN 0 - 1
    ELSE 2
NoPolls ==
    [polls |-> 0, ticks |-> 0, position |-> NoIndex, travelled |-> 0, gray |-> TRUE,
     sum |-> 0, result |-> "none", before |-> NoIndex, a |-> "Err", b |-> "Err"]
StepValue(result) ==
    IF result \in Step THEN value(result) ELSE 0
LogEncoder(a, b) ==
    LET result == Quadrature_poll_result(quadrature.old_index, a, b)
        polled == [encoder_log EXCEPT !.polls = @ + 1, !.result = result,
                                      !.before = quadrature.old_index,
                                      !.a = a, !.b = b, !.sum = @ + StepValue(result)]
    IN  encoder_log' =
            IF a = "Err" \/ b = "Err" THEN polled
            ELSE IF encoder_log.position = NoIndex
            THEN [polled EXCEPT !.position = GrayPosition[<<a, b>>]]
            ELSE LET moved == Moved(encoder_log.position, GrayPosition[<<a, b>>])
                 IN  [polled EXCEPT !.position = GrayPosition[<<a, b>>],
                                    !.ticks = @ + 1,
                                    !.gray = @ /\ moved # 2,
                                    !.travelled = IF moved = 2 THEN @ ELSE @ + moved]

\* AudioEvent messages
EvStreamOpened(s, st) == <<"StreamOpened", s, st>>
EvStreamClosed(s) == <<"StreamClosed", s>>
EvStateChanged(s, st) == <<"StateChanged", s, st>>

\* History of the audio events of each stream id.  registered: a
\* StreamOpened was received and no StreamClosed after it; state: the state
\* of the latest StateChanged received since the latest StreamOpened, or that
\* StreamOpened's initial_state
NotRegistered == [registered |-> FALSE, state |-> DefaultState]
LogStream(e) ==
    stream_log' =
        CASE e[1] = "StreamOpened" ->
                 [stream_log EXCEPT ![e[2]] = [registered |-> TRUE, state |-> e[3]]]
          [] e[1] = "StreamClosed" ->
                 [stream_log EXCEPT ![e[2]] = NotRegistered]
          [] e[1] = "StateChanged" ->
                 IF stream_log[e[2]].registered
                 THEN [stream_log EXCEPT ![e[2]].state = e[3]]
                 ELSE stream_log

\* ------------------------------------------------- bigraph.rs: BiGraph
\* enum Either<L, R>
EitherLeft(left) == <<"Left", left>>
EitherRight(right) == <<"Right", right>>

\* Either::left, Either::right: Option as a sequence of length <= 1
Either_left(n) == IF n[1] = "Left" THEN <<n[2]>> ELSE <<>>
Either_right(n) == IF n[1] = "Right" THEN <<n[2]>> ELSE <<>>

\* petgraph's UnGraphMap<N, ()>, as BiGraph uses it: a set of nodes and a set
\* of undirected edges {a, b}; add_edge adds missing end nodes and returns
\* the old weight (Some iff the edge was there), remove_node removes the
\* node's edges with it and returns whether the node was there, remove_edge
\* returns the weight of the removed edge
UnGraphMap_new == [nodes |-> {}, edges |-> {}]
UnGraphMap_add_node(g, n) == [g EXCEPT !.nodes = @ \cup {n}]
UnGraphMap_contains_node(g, n) == n \in g.nodes
UnGraphMap_contains_edge(g, a, b) == {a, b} \in g.edges

\* A remove_node that leaves the node's edges
UnGraphMap_remove_node_only(g, n) == [g EXCEPT !.nodes = @ \ {n}]

UnGraphMap_remove_node(g, n) ==
    [nodes |-> g.nodes \ {n}, edges |-> {e \in g.edges : n \notin e}]
UnGraphMap_add_edge(g, a, b) ==
    [nodes |-> g.nodes \cup {a, b}, edges |-> g.edges \cup {{a, b}}]
UnGraphMap_remove_edge(g, a, b) == [g EXCEPT !.edges = @ \ {{a, b}}]
UnGraphMap_neighbors(g, a) == {n \in g.nodes : n # a /\ {a, n} \in g.edges}

\* BiGraph::new
BiGraph_new == [graph |-> UnGraphMap_new]

\* BiGraph::neighbors_of_left, neighbors_of_right: the nodes the iterator
\* yields (.flat_map(Either::right), .flat_map(Either::left))
BiGraph_neighbors_of_left(b, left) ==
    {Either_right(n)[1] :
        n \in {m \in UnGraphMap_neighbors(b.graph, EitherLeft(left)) : Either_right(m) # <<>>}}
BiGraph_neighbors_of_right(b, right) ==
    {Either_left(n)[1] :
        n \in {m \in UnGraphMap_neighbors(b.graph, EitherRight(right)) : Either_left(m) # <<>>}}

\* What the operations return
BiGraph_remove_left_returns(left) == UnGraphMap_contains_node(bigraph.graph, EitherLeft(left))
BiGraph_remove_right_returns(right) == UnGraphMap_contains_node(bigraph.graph, EitherRight(right))
BiGraph_add_edge_returns(left, right) ==
    ~UnGraphMap_contains_edge(bigraph.graph, EitherLeft(left), EitherRight(right))
BiGraph_remove_edge_returns(left, right) ==
    UnGraphMap_contains_edge(bigraph.graph, EitherLeft(left), EitherRight(right))

\* BiGraph::clear, add_left, add_right, remove_left, remove_right, add_edge,
\* remove_edge
BiGraph_clear == bigraph' = [bigraph EXCEPT !.graph = UnGraphMap_new]
BiGraph_add_left(left) ==
    bigraph' = [bigraph EXCEPT !.graph = UnGraphMap_add_node(@, EitherLeft(left))]
BiGraph_add_right(right) ==
    bigraph' = [bigraph EXCEPT !.graph = UnGraphMap_add_node(@, EitherRight(right))]
BiGraph_remove_left(left) ==
    bigraph' = [bigraph EXCEPT !.graph = UnGraphMap_remove_node(@, EitherLeft(left))]
BiGraph_remove_right(right) ==
    bigraph' = [bigraph EXCEPT !.graph = UnGraphMap_remove_node(@, EitherRight(right))]
BiGraph_add_edge(left, right) ==
    bigraph' = [bigraph EXCEPT
                   !.graph = UnGraphMap_add_edge(@, EitherLeft(left), EitherRight(right))]
BiGraph_remove_edge(left, right) ==
    bigraph' = [bigraph EXCEPT
                   !.graph = UnGraphMap_remove_edge(@, EitherLeft(left), EitherRight(right))]

\* History of the graph: the last operation, its arguments, what it returned
\* (TRUE for the operations that return nothing) and the graph before it
NoGraphOperation == [op |-> "none", args |-> <<>>, returned |-> TRUE, before |-> BiGraph_new]
LogGraph(op, args, returned) ==
    graph_log' = [op |-> op, args |-> args, returned |-> returned, before |-> bigraph]

\* What the graph's operations leave alone
GraphFrame ==
    /\ UNCHANGED <<coreVars, outVars, control_input, workerVars, pollVars, taskVars, logVars>>
    /\ UNCHANGED <<linkVars, id_calls, ids_log, tailVars>>

\* ------------------------------------------------- control.rs: DeviceId::new
\* NEXT_ID is an AtomicU64; the model keeps the counter IdBits wide, so that
\* the end of its range is within reach, and calls DeviceId::new from
\* NumThreads threads
IdBits == 3
NumThreads == 2
Threads == 1..NumThreads
IdRange == 2 ^ IdBits
IdMax == IdRange - 1      \* u64::MAX at this width

\* A thread's position in DeviceId::new: not in a call, holding the value
\* fetch_add returned (with the greatest identifier returned before the call
\* began), or unwound by the panic
Idle == [at |-> "idle"]
Unwound == [at |-> "panicked"]
NoneReturned == 0 - 1
Greatest(S) == IF S = {} THEN NoneReturned ELSE CHOOSE x \in S : \A y \in S : y <= x

\* Identifiers returned so far, whether one was returned twice, whether one
\* was not greater than an identifier returned before its call began, and
\* whether a call has fetched the last value of the counter
NoIds == [handed |-> {}, repeated |-> FALSE, descending |-> FALSE, wrapped |-> FALSE]

\* A fetch_add that stops at the end of the range instead of wrapping
fetch_add_saturating(counter, n) == IF counter + n > IdMax THEN IdMax ELSE counter + n

\* AtomicU64::fetch_add: the new value of the counter, wrapping on overflow
fetch_add(counter, n) == (counter + n) % IdRange

\* let id = NEXT_ID.fetch_add(1, Ordering::Relaxed);
DeviceId_new_fetch(t) ==
    /\ id_calls[t] = Idle
    /\ id_calls' = [id_calls EXCEPT ![t] =
                       [at |-> "fetched", id |-> next_device_id,
                        after |-> Greatest(ids_log.handed)]]
    /\ next_device_id' = fetch_add(next_device_id, 1)
    /\ ids_log' = [ids_log EXCEPT !.wrapped = @ \/ next_device_id = IdMax]

\* if id == u64::MAX { panic!("DeviceId overflow"); } Self(id)
DeviceId_new_return(t) ==
    /\ id_calls[t].at = "fetched"
    /\ IF id_calls[t].id = IdMax
       THEN /\ id_calls' = [id_calls EXCEPT ![t] = Unwound]
            /\ UNCHANGED ids_log
       ELSE /\ id_calls' = [id_calls EXCEPT ![t] = Idle]
            /\ ids_log' = [ids_log EXCEPT
                               !.handed = @ \cup {id_calls[t].id},
                               !.repeated = @ \/ id_calls[t].id \in ids_log.handed,
                               !.descending = @ \/ id_calls[t].id <= id_calls[t].after]
    /\ UNCHANGED next_device_id

\* What DeviceId::new leaves alone
IdsFrame ==
    /\ UNCHANGED <<coreVars, outVars, control_input, devices, device_keys, pollVars, taskVars>>
    /\ UNCHANGED <<logVars, linkVars, bigraph, graph_log, tailVars>>

\* ------------------------------------------------- firmware: system.rs
\* System: channel_1 .. channel_6 (NumLinkChannels of them), each a
\* ChannelImpl of a Quadrature encoder, an ActiveLow button and an indicator;
\* indicator: the level the pin was last driven to, TRUE for lit.  The
\* indicators' constructors drive the pins to the unlit level
System_new ==
    [channels |-> [i \in LinkIndices |->
                      [encoder |-> [old_index |-> NoIndex], indicator |-> FALSE]]]

\* button::ActiveLow::poll: self.pin.is_low()
Button_poll(pin) ==
    CASE pin = "Low" -> "Pressed"
      [] pin = "High" -> "Released"
      [] pin = "Err" -> "Err"

\* Quadrature::poll on a channel's encoder: old_index after the poll
Encoder_after(encoder, a, b) ==
    IF a = "Err" \/ b = "Err" THEN encoder
    ELSE [encoder EXCEPT !.old_index = pin_index(a = "High", b = "High")]

\* UsbHid::update_encoder and update_button on a Report: the encoder field
\* after `+=` where it does not panic, the buttons after `|=` / `&= !`
Report_add(r, index, step) == [r EXCEPT !.encoders[index] = WrapI8(@ + value(step))]
Report_overflows(r, index, step) == r.encoders[index] + value(step) \notin I8Min .. I8Max
Report_button(r, index, is_pressed) ==
    [r EXCEPT !.buttons = IF is_pressed THEN @ \cup {index} ELSE @ \ {index}]

\* An update_channel that leaves the channel when its encoder fails
System_update_channel_fatal(index, a, b, pin, overflow_checks, driven) ==
    /\ ~panicked
    /\ run_at = index
    /\ LET result == Quadrature_poll_result(system.channels[index].encoder.old_index, a, b)
           r1 == IF result \in Step THEN Report_add(host_link.report, index, result)
                 ELSE host_link.report
           r2 == IF Button_poll(pin) # "Err" /\ result \in Step
                 THEN Report_button(r1, index, Button_poll(pin) = "Pressed")
                 ELSE r1
       IN  /\ host_link' = [host_link EXCEPT !.report = r2]
           /\ system' = [system EXCEPT
                  !.channels[index].encoder = Encoder_after(@, a, b),
                  !.channels[index].indicator =
                      IF driven /\ result \in Step THEN index \in r2.leds ELSE @]
           /\ run_at' = index + 1
           /\ UNCHANGED panicked

\* System::run, update_channel(&mut self.host_link, index, &mut channel).
\* a, b: the reads of the encoder's pins; pin: the read of the button's pin;
\* driven: the write of the indicator's pin succeeded (its error is dropped
\* by .ok()).  An update_encoder that panics ends the loop
System_update_channel(index, a, b, pin, overflow_checks, driven) ==
    /\ ~panicked
    /\ run_at = index
    /\ LET result == Quadrature_poll_result(system.channels[index].encoder.old_index, a, b)
           stops == /\ result \in Step
                    /\ Report_overflows(host_link.report, index, result)
                    /\ overflow_checks
           r1 == IF result \in Step THEN Report_add(host_link.report, index, result)
                 ELSE host_link.report
           r2 == IF Button_poll(pin) # "Err"
                 THEN Report_button(r1, index, Button_poll(pin) = "Pressed")
                 ELSE r1
       IN  IF stops
           THEN /\ panicked' = TRUE
                /\ system' = [system EXCEPT
                       !.channels[index].encoder = Encoder_after(@, a, b)]
                /\ UNCHANGED <<host_link, run_at>>
           ELSE /\ host_link' = [host_link EXCEPT !.report = r2]
                /\ system' = [system EXCEPT
                       !.channels[index].encoder = Encoder_after(@, a, b),
                       !.channels[index].indicator =
                           IF driven THEN index \in r2.leds ELSE @]
                /\ run_at' = index + 1
                /\ UNCHANGED panicked

\* System::run, self.host_link.poll().ok(): the end of a pass of the loop
System_poll(polled, pushed, pulled) ==
    /\ run_at = NumLinkChannels
    /\ UsbHid_poll(polled, pushed, pulled)
    /\ run_at' = 0
    /\ UNCHANGED system

\* History of the loop: the statement executed last (the index of the
\* channel, NumLinkChannels for the poll), what the encoder's and the
\* button's polls returned in it, and the channel's staged delta and button
\* bit before it
NoStatement ==
    [at |-> 0 - 1, encoder |-> "none", button |-> "none", delta |-> 0, pressed |-> FALSE]
LogRun(index, a, b, pin) ==
    run_log' = [at |-> index,
                encoder |-> Quadrature_poll_result(
                                system.channels[index].encoder.old_index, a, b),
                button |-> Button_poll(pin),
                delta |-> host_link.report.encoders[index],
                pressed |-> index \in host_link.report.buttons]
LogRunPoll ==
    run_log' = [at |-> NumLinkChannels, encoder |-> "none", button |-> "none",
                delta |-> 0, pressed |-> FALSE]

\* What the firmware's loop leaves alone
RunFrame ==
    /\ UNCHANGED <<coreVars, outVars, control_input, workerVars, pollVars, taskVars, logVars>>
    /\ UNCHANGED <<link_log, quadrature, encoder_log, unitVars>>
    /\ UNCHANGED <<adapter, adapter_log, input_log>>

\* ------------------------------ backend/windows/audio.rs: the audio adapter
NumOsDevices == 1
NumOsSessions == 1
MaxOsVolume == 1
MaxStreamIds == 2
MaxAdapterBacklog == 1

\* The endpoints and the sessions the operating system has, the stream ids
\* the adapter allocates, and the state the system keeps for a stream
OsDevices == 1 .. NumOsDevices
OsSessions == 1 .. NumOsSessions
OsVolumes == 0 .. MaxOsVolume
OsStates == [volume : OsVolumes, muted : BOOLEAN]
AdapterStreams == 1 .. MaxStreamIds

\* StreamId::new(): the value of the process-wide counter
StreamId_new(next) == next

\* Runtime::new: the registries empty.  devices and sessions give, for each
\* stream id, the state behind the AudioDevice's and the AudioSession's volume
\* interface (a session with the stream id of its parent device)
Adapter_new ==
    [device_ids |-> << >>, session_ids |-> << >>, devices |-> << >>, sessions |-> << >>,
     next_stream_id |-> 1]

\* History of the adapter's iterations: the kind of the message taken last,
\* the stream id it names, what the registries knew it as, how it ended
NoIteration == [kind |-> "none", stream |-> 0, known |-> "none", result |-> "none"]
LogAdapter(kind, sid, known, result) ==
    adapter_log' = [kind |-> kind, stream |-> sid, known |-> known, result |-> result]

\* f32::clamp(0.0, 1.0), and the range of the endpoint's volume steps
Clamp(v) == IF v < 0 THEN 0 ELSE IF v > MaxOsVolume THEN MaxOsVolume ELSE v

\* set_volume, set_muted, toggle_muted and step_volume of AudioDevice and of
\* AudioSession, on the state the operating system keeps; volumes in steps
stream_control(state, control) ==
    CASE control[1] = "SetVolume" -> [state EXCEPT !.volume = control[2]]
      [] control[1] = "SetMuted" -> [state EXCEPT !.muted = control[2]]
      [] control[1] = "ToggleMuted" -> [state EXCEPT !.muted = ~@]
      [] control[1] = "StepVolume" -> [state EXCEPT !.volume = Clamp(@ + control[2])]

\* The StreamControls of the adapter's specification
AdapterControls ==
    {<<"SetVolume", v>> : v \in OsVolumes} \cup {<<"SetMuted", b>> : b \in BOOLEAN}
        \cup {<<"ToggleMuted">>, <<"StepVolume", 1>>, <<"StepVolume", 0 - 1>>}

\* A map without / with an entry
Without(f, x) == [y \in DOMAIN f \ {x} |-> f[y]]
With(f, x, v) == [y \in DOMAIN f \cup {x} |-> IF y = x THEN v ELSE f[y]]

\* What the adapter's iterations leave alone
AdapterFrame ==
    /\ UNCHANGED <<coreVars, control_output, control_input, workerVars, pollVars>>
    /\ UNCHANGED <<run_returned, logVars, linkVars, unitVars>>
    /\ UNCHANGED <<system, run_at, run_log, input_log>>

\* handle.send(event).await
SendEvent(msgs) == audio_event' = audio_event \o msgs

\* An adapter that takes a control for an unknown stream for an error
AdapterControl_strict ==
    /\ task["audio"] = "running"
    /\ audio_control # <<>>
    /\ audio_control' = Tail(audio_control)
    /\ LET msg == Head(audio_control)
           sid == msg.stream
       IN  IF sid \in DOMAIN adapter.devices
           THEN \/ /\ adapter' = [adapter EXCEPT
                                     !.devices[sid] = stream_control(@, msg.control)]
                   /\ UNCHANGED task
                   /\ LogAdapter("control", sid, "device", "ok")
                \/ /\ task' = Returned("audio")
                   /\ UNCHANGED adapter
                   /\ LogAdapter("control", sid, "device", "failed")
           ELSE IF sid \in DOMAIN adapter.sessions
           THEN \/ /\ adapter' = [adapter EXCEPT
                                     !.sessions[sid] = stream_control(@, msg.control)]
                   /\ UNCHANGED task
                   /\ LogAdapter("control", sid, "session", "ok")
                \/ /\ task' = Returned("audio")
                   /\ UNCHANGED adapter
                   /\ LogAdapter("control", sid, "session", "failed")
           ELSE /\ task' = Returned("audio")
                /\ UNCHANGED adapter
                /\ LogAdapter("control", sid, "unknown", "failed")
    /\ UNCHANGED audio_event
    /\ AdapterFrame

\* Runtime::run, Some(Incoming::Control(..)): the control is applied to the
\* registered device or, failing that, to the registered session with the
\* stream id; the error of the system call ends the task (`?`); a control
\* for any other stream id is logged
AdapterControl ==
    /\ task["audio"] = "running"
    /\ audio_control # <<>>
    /\ audio_control' = Tail(audio_control)
    /\ LET msg == Head(audio_control)
           sid == msg.stream
       IN  IF sid \in DOMAIN adapter.devices
           THEN \/ /\ adapter' = [adapter EXCEPT
                                     !.devices[sid] = stream_control(@, msg.control)]
                   /\ UNCHANGED task
                   /\ LogAdapter("control", sid, "device", "ok")
                \/ /\ task' = Returned("audio")
                   /\ UNCHANGED adapter
                   /\ LogAdapter("control", sid, "device", "failed")
           ELSE IF sid \in DOMAIN adapter.sessions
           THEN \/ /\ adapter' = [adapter EXCEPT
                                     !.sessions[sid] = stream_control(@, msg.control)]
                   /\ UNCHANGED task
                   /\ LogAdapter("control", sid, "session", "ok")
                \/ /\ task' = Returned("audio")
                   /\ UNCHANGED adapter
                   /\ LogAdapter("control", sid, "session", "failed")
           ELSE /\ UNCHANGED <<adapter, task>>
                /\ LogAdapter("control", sid, "unknown", "ok")
    /\ UNCHANGED audio_event
    /\ AdapterFrame

\* What every notification's iteration does: control_future.or(notify_future)
\* takes a notification only when no control is ready
AdapterNotify ==
    /\ task["audio"] = "running"
    /\ audio_control = <<>>
    /\ UNCHANGED audio_control
    /\ AdapterFrame

\* Runtime::add_device for the endpoint dev, called for the endpoints present
\* at the start and for NotifyEvent::DeviceAdded.  outcome: whether
\* AudioDevice::new, device.stream_info() and device.id() succeed; state is
\* the endpoint's state
AdapterDeviceAdded(dev, state, outcome) ==
    /\ AdapterNotify
    /\ LET sid == StreamId_new(adapter.next_stream_id)
           allocated == [adapter EXCEPT !.next_stream_id = sid + 1]
       IN  IF dev \in RegisteredKeys(adapter.device_ids)
           THEN /\ UNCHANGED <<adapter, task, audio_event>>
                /\ LogAdapter("DeviceAdded", 0, "device", "ok")
           ELSE CASE outcome = "not opened" ->
                       /\ adapter' \in {adapter, allocated}
                       /\ UNCHANGED <<task, audio_event>>
                       /\ LogAdapter("DeviceAdded", 0, "unknown", "ok")
                  [] outcome = "stream_info failed" ->
                       /\ adapter' = allocated
                       /\ task' = Returned("audio")
                       /\ UNCHANGED audio_event
                       /\ LogAdapter("DeviceAdded", sid, "unknown", "failed")
                  [] outcome = "id failed" ->
                       /\ adapter' = allocated
                       /\ task' = Returned("audio")
                       /\ SendEvent(<<EvStreamOpened(sid, state)>>)
                       /\ LogAdapter("DeviceAdded", sid, "unknown", "failed")
                  [] outcome = "opened" ->
                       /\ adapter' = [allocated EXCEPT
                                         !.device_ids = With(@, sid, dev),
                                         !.devices = With(@, sid, state)]
                       /\ UNCHANGED task
                       /\ SendEvent(<<EvStreamOpened(sid, state)>>)
                       /\ LogAdapter("DeviceAdded", sid, "unknown", "ok")

\* NotifyEvent::DeviceRemoved(device_id)
AdapterDeviceRemoved(dev) ==
    /\ AdapterNotify
    /\ UNCHANGED task
    /\ IF dev \in RegisteredKeys(adapter.device_ids)
       THEN LET sid == CHOOSE s \in DOMAIN adapter.device_ids : adapter.device_ids[s] = dev
            IN  /\ adapter' = [adapter EXCEPT !.device_ids = Without(@, sid),
                                              !.devices = Without(@, sid)]
                /\ SendEvent(<<EvStreamClosed(sid)>>)
                /\ LogAdapter("DeviceRemoved", sid, "device", "ok")
       ELSE /\ UNCHANGED <<adapter, audio_event>>
            /\ LogAdapter("DeviceRemoved", 0, "unknown", "ok")

\* NotifyEvent::DeviceStateChanged(device_id, device_state): StreamOpened with
\* the endpoint's stream_info() when it became active, else StreamClosed; the
\* registries stay as they are
AdapterDeviceStateChanged(dev, active, outcome) ==
    /\ AdapterNotify
    /\ UNCHANGED adapter
    /\ IF dev \in RegisteredKeys(adapter.device_ids)
       THEN LET sid == CHOOSE s \in DOMAIN adapter.device_ids : adapter.device_ids[s] = dev
            IN  IF active /\ outcome = "stream_info failed"
                THEN /\ task' = Returned("audio")
                     /\ UNCHANGED audio_event
                     /\ LogAdapter("DeviceStateChanged", sid, "device", "failed")
                ELSE /\ UNCHANGED task
                     /\ SendEvent(<<IF active THEN EvStreamOpened(sid, adapter.devices[sid])
                                               ELSE EvStreamClosed(sid)>>)
                     /\ LogAdapter("DeviceStateChanged", sid, "device", "ok")
       ELSE /\ UNCHANGED <<task, audio_event>>
            /\ LogAdapter("DeviceStateChanged", 0, "unknown", "ok")

\* NotifyEvent::StreamStateChanged(stream_id, state), sent by the callbacks
\* of an endpoint or a session
AdapterStateChanged(sid, state) ==
    /\ AdapterNotify
    /\ UNCHANGED <<adapter, task>>
    /\ SendEvent(<<EvStateChanged(sid, state)>>)
    /\ LogAdapter("StreamStateChanged", sid, "none", "ok")

\* NotifyEvent::SessionCreated(parent_stream_id, session_id).  outcome:
\* whether find_session finds the session and AudioSession::new and
\* stream_info succeed
AdapterSessionCreated(parent, session, state, outcome) ==
    /\ AdapterNotify
    /\ LET sid == StreamId_new(adapter.next_stream_id)
           allocated == [adapter EXCEPT !.next_stream_id = sid + 1]
       IN  IF session \in RegisteredKeys(adapter.session_ids)
              \/ parent \notin DOMAIN adapter.devices
              \/ outcome = "not opened"
           THEN /\ UNCHANGED <<adapter, task, audio_event>>
                /\ LogAdapter("SessionCreated", parent, "unknown", "ok")
           ELSE CASE outcome \in {"stream_info failed", "id failed"} ->
                       /\ adapter' \in {adapter, allocated}
                       /\ task' = Returned("audio")
                       /\ UNCHANGED audio_event
                       /\ LogAdapter("SessionCreated", parent, "unknown", "failed")
                  [] outcome = "opened" ->
                       /\ adapter' = [allocated EXCEPT
                                         !.session_ids = With(@, sid, session),
                                         !.sessions = With(@, sid, state)]
                       /\ UNCHANGED task
                       /\ SendEvent(<<EvStreamOpened(sid, state)>>)
                       /\ LogAdapter("SessionCreated", sid, "unknown", "ok")

\* NotifyEvent::SessionDisconnected(stream_id)
AdapterSessionDisconnected(sid) ==
    /\ AdapterNotify
    /\ UNCHANGED task
    /\ IF sid \in DOMAIN adapter.sessions
       THEN /\ adapter' = [adapter EXCEPT !.session_ids = Without(@, sid),
                                          !.sessions = Without(@, sid)]
            /\ SendEvent(<<EvStreamClosed(sid)>>)
            /\ LogAdapter("SessionDisconnected", sid, "session", "ok")
       ELSE /\ UNCHANGED <<adapter, audio_event>>
            /\ LogAdapter("SessionDisconnected", sid, "unknown", "ok")

\* The coordinator sends a StreamControl (audio_control_tx.send(..).await)
CoordinatorSends(sid, control) ==
    /\ task["core"] = "running"
    /\ SendAudio(<<StreamControl(sid, control)>>)
    /\ UNCHANGED <<coreVars, control_output, control_input, workerVars, pollVars, taskVars>>
    /\ UNCHANGED <<logVars, linkVars, unitVars, tailVars>>

\* History of the control inputs: the ChannelInput the coordinator handled
\* last, its channel, whether a menu was open for the channel before, and
\* the channels the HID worker has sent a ChannelInput for
NoInputs == [input |-> "none", chan |-> <<>>, had_menu |-> FALSE, seen |-> {}]
LogInput(input, c) ==
    input_log' = [input_log EXCEPT
                     !.input = input, !.chan = c, !.had_menu = c \in DOMAIN menus]
LogSent(c) == input_log' = [input_log EXCEPT !.seen = @ \cup {c}]

\* ------------------------------------------------------------ the system
\* Core::run: the channels empty, the Runtime as constructed; the HID worker's
\* Runtime as constructed by HidApiControlBackend::start
Init ==
    /\ streams = << >>
    /\ bindings = {}
    /\ menus = << >>
    /\ window_focus = NoStream
    /\ default_device = NoStream
    /\ control_output = <<>>
    /\ audio_control = <<>>
    /\ control_input = <<>>
    /\ devices = << >>
    /\ device_keys = << >>
    /\ next_device_id = 0
    /\ now = 0
    /\ menu_blink_timer = NoTimeout
    /\ leds = [k \in DeviceKeys \cup PlugKeys |-> {}]
    /\ press_log = [c \in Channels |-> NoPress]
    /\ audio_event = <<>>
    /\ task = [t \in Tasks |-> "running"]
    /\ run_returned = FALSE
    /\ menu_log = NoOpen
    /\ device_log = [d \in Devices \cup PlugIds |-> "new"]
    /\ stream_log = [s \in Streams |-> NotRegistered]
    /\ core_log = "none"
    /\ host_link = [report |-> ReportDefault]
    /\ panicked = FALSE
    /\ link_log = NoOperation
    /\ quadrature = [old_index |-> NoIndex]
    /\ encoder_log = NoPolls
    /\ bigraph = BiGraph_new
    /\ graph_log = NoGraphOperation
    /\ id_calls = [t \in Threads |-> Idle]
    /\ system = System_new
    /\ run_at = 0
    /\ run_log = NoStatement
    /\ adapter = Adapter_new
    /\ adapter_log = NoIteration
    /\ input_log = NoInputs
    /\ ids_log = NoIds

Backlog == Len(control_output) + Len(audio_control) + Len(control_input) + Len(audio_event)

\* The events that can arrive now: none while more than MaxBacklog messages
\* are in the channels
Ready(S) == IF Backlog <= MaxBacklog THEN S ELSE {}

\* What an event handled by the coordinator leaves alone
CoreFrame == UNCHANGED <<control_input, workerVars, pollVars, taskVars, logVars, linkVars, unitVars, tailVars>>

\* What an audio event about one stream leaves alone
AudioFrame ==
    UNCHANGED <<control_input, workerVars, pollVars, taskVars, menu_log, device_log, core_log, linkVars, unitVars, tailVars>>

\* The coordinator under every sequence of audio events and control inputs:
\* one iteration of Runtime::run handles one incoming event; the backends
\* take what the coordinator sends
Next ==
    \/ \E s \in Ready(Streams), st \in StreamStates :
          StreamOpened(s, st) /\ LogStream(EvStreamOpened(s, st)) /\ AudioFrame
    \/ \E s \in Ready(Streams) :
          StreamClosed(s) /\ LogStream(EvStreamClosed(s)) /\ AudioFrame
    \/ \E s \in Ready(Streams), st \in StreamStates :
          StateChanged(s, st) /\ LogStream(EvStateChanged(s, st)) /\ AudioFrame
    \/ \E x \in Ready(OptStreams) : WindowFocusChanged(x) /\ CoreFrame
    \/ \E x \in Ready(OptStreams) : DefaultDeviceChanged(x) /\ CoreFrame
    \/ \E d \in Ready(Devices) : DeviceAdded(d) /\ CoreFrame
    \/ \E d \in Ready(Devices) : DeviceRemoved(d) /\ CoreFrame
    \/ \E c \in Ready(Channels), v \in Volumes : SetVolume(c, v) /\ CoreFrame
    \/ \E c \in Ready(Channels), n \in {-1, 1} : StepVolume(c, n) /\ CoreFrame
    \/ \E c \in Ready(Channels), m \in BOOLEAN : SetMuted(c, m) /\ CoreFrame
    \/ \E c \in Ready(Channels) : ToggleMuted(c) /\ CoreFrame
    \/ \E c \in Ready({x \in Channels : Cardinality(DOMAIN menus \ {x}) < MaxOpenMenus}) :
          OpenMenu(c) /\ CoreFrame
    \/ \E c \in Ready(Channels) : CloseMenu(c) /\ CoreFrame
    \/ \E c \in Ready(Channels) : MenuNext(c) /\ CoreFrame
    \/ \E c \in Ready(Channels) : MenuPrevious(c) /\ CoreFrame
    \/ \E c \in Ready(Channels) : MenuSelect(c) /\ CoreFrame
    \/ RecvControlOutput
    \/ RecvAudioControl

Spec == Init /\ [][Next]_vars

\* --------------------------------- the coordinator with the HID worker
\* The streams the audio adapter reports in SpecSys
SysStreams == 1 .. NumSysStreams

\* The channels the HID worker polls whose menu_open flag is `open`
Polled(open) ==
    {c \in Channels : c[1] \in DOMAIN devices /\ devices[c[1]][c[2]].menu_open = open}

\* The coordinator with the HID worker as its control backend: the worker
\* refreshes its devices, sends the inputs Device::poll sends for the
\* menu_open flag of the channel (the coordinator handles each as it is sent),
\* and takes the coordinator's outputs
NextSys ==
    \/ \E s \in Ready(SysStreams), st \in StreamStates : StreamOpened(s, st) /\ CoreFrame
    \/ \E s \in Ready(SysStreams) : StreamClosed(s) /\ CoreFrame
    \/ \E s \in Ready(SysStreams), st \in StreamStates : StateChanged(s, st) /\ CoreFrame
    \/ \E x \in Ready({NoStream} \cup SysStreams) : WindowFocusChanged(x) /\ CoreFrame
    \/ \E x \in Ready({NoStream} \cup SysStreams) : DefaultDeviceChanged(x) /\ CoreFrame
    \/ \E c \in Ready(Polled(FALSE)), n \in {-1, 1} : StepVolume(c, n) /\ CoreFrame
    \/ \E c \in Ready(Polled(FALSE)) : ToggleMuted(c) /\ CoreFrame
    \/ \E c \in Ready(Polled(FALSE)) : OpenMenu(c) /\ CoreFrame
    \/ \E c \in Ready(Polled(TRUE)) : CloseMenu(c) /\ CoreFrame
    \/ \E c \in Ready(Polled(TRUE)) : MenuNext(c) /\ CoreFrame
    \/ \E c \in Ready(Polled(TRUE)) : MenuPrevious(c) /\ CoreFrame
    \/ \E c \in Ready(Polled(TRUE)) : MenuSelect(c) /\ CoreFrame
    \/ \E infos \in Ready(Plugged(DeviceKeys, NumDevices)) : Refresh(infos) /\ UNCHANGED <<logVars, linkVars, unitVars, tailVars>>
    \/ RecvControlInput
    \/ RecvControlOutput
    \/ RecvAudioControl

SpecSys == Init /\ [][NextSys]_vars

\* ------------------------------------------- the HID worker's Device::poll
\* The HID worker under every sequence of input reports read at any times,
\* with a coordinator that takes the inputs and sends any outputs for the
\* channels in use
NextPress ==
    \/ Tick
    \/ \E infos \in Ready(Plugged(DeviceKeys, NumDevices)) :
          Refresh(infos) /\ LogDevices /\ UNCHANGED <<menu_log, stream_log, core_log, linkVars, unitVars, tailVars>>
    \/ \E d \in Ready(Devices), report \in Reports :
          Poll(d, report) /\ LogPress(d, report) /\ LogDevices /\ UNCHANGED <<menu_log, stream_log, core_log, linkVars, unitVars, tailVars>>
    \/ \E d \in Ready(Devices), report \in Reports, writing \in BOOLEAN :
          /\ PollFails(d, <<report>>, writing)
          /\ LogPress(d, report) /\ LogDevices /\ UNCHANGED <<menu_log, stream_log, core_log, linkVars, unitVars, tailVars>>
    \/ \E d \in Ready(Devices) :
          PollFails(d, <<>>, FALSE) /\ UNCHANGED <<press_log, logVars, linkVars, unitVars, tailVars>>
    \/ \E d \in Ready(Devices) :
          PollIdle(d) /\ UNCHANGED <<press_log, logVars, linkVars, unitVars, tailVars>>
    \/ CoreTakes
    \/ \E c \in Ready(Devices \X PressIndices),
          out \in {MenuOpened, MenuClosed} \cup {OutStateChanged(st) : st \in StreamStates} :
          CoreSends(c, out)
    \/ RecvControlOutput

SpecPress == Init /\ [][NextPress]_vars

\* ------------------------------------------------ the three tasks' ends
\* Some(Incoming::AudioEvent(audio_event)) => match audio_event { .. }
HandleAudioEvent(e) ==
    CASE e[1] = "StreamOpened" -> StreamOpened(e[2], e[3])
      [] e[1] = "StreamClosed" -> StreamClosed(e[2])
      [] e[1] = "StateChanged" -> StateChanged(e[2], e[3])
      [] e[1] = "WindowFocusChanged" -> WindowFocusChanged(e[2])
      [] e[1] = "DefaultDeviceChanged" -> DefaultDeviceChanged(e[2])

\* AfterSends of a coordinator that goes on after a failed send
AfterSends_on == task

\* `.await?` on a send: the coordinator's task returns the error of a send
\* into a channel whose receiver is dropped (what it has sent there is lost)
AfterSends ==
    IF \/ control_output' # control_output /\ ControlHandleDropped
       \/ audio_control' # audio_control /\ AudioHandleDropped
    THEN Returned("core") ELSE task

\* None => break: the coordinator's loop ends
CoreBreak ==
    /\ task' = Returned("core")
    /\ UNCHANGED <<coreVars, outVars, control_input, audio_event>>

\* One iteration of the coordinator's Runtime::run:
\* audio_event_task.or(control_input_task) polls audio_event_rx first, then
\* control_input_rx; a receive from an empty channel whose sender is dropped
\* yields None
CoreRecv ==
    /\ task["core"] = "running"
    /\ IF audio_event # <<>>
       THEN /\ audio_event' = Tail(audio_event)
            /\ HandleAudioEvent(Head(audio_event))
            /\ task' = AfterSends
            /\ UNCHANGED control_input
       ELSE IF AudioHandleDropped THEN CoreBreak
       ELSE IF control_input # <<>>
       THEN /\ control_input' = Tail(control_input)
            /\ HandleControlInput(Head(control_input))
            /\ task' = AfterSends
            /\ UNCHANGED audio_event
       ELSE ControlHandleDropped /\ CoreBreak
    /\ UNCHANGED <<workerVars, pollVars, run_returned, linkVars, unitVars, tailVars>>
    /\ UNCHANGED <<menu_log, device_log, stream_log>>

\* The audio adapter sends an AudioEvent (handle.send(..))
AdapterSends(e) ==
    /\ task["audio"] = "running"
    /\ audio_event' = Append(audio_event, e)
    /\ UNCHANGED <<coreVars, outVars, control_input, workerVars, pollVars>>
    /\ UNCHANGED <<task, run_returned, logVars, linkVars, unitVars, tailVars>>

\* The audio adapter's task returns the error of a system call (`?`)
AdapterFails ==
    /\ task["audio"] = "running"
    /\ task' = Returned("audio")
    /\ UNCHANGED <<coreVars, outVars, control_input, workerVars, pollVars>>
    /\ UNCHANGED <<audio_event, run_returned, logVars, linkVars, unitVars, tailVars>>

\* The HID worker's task returns the error of refresh_devices or of
\* Device::detect (`?`)
WorkerFails ==
    /\ task["control"] = "running"
    /\ task' = Returned("control")
    /\ UNCHANGED <<coreVars, outVars, control_input, workerVars, pollVars>>
    /\ UNCHANGED <<audio_event, run_returned, logVars, linkVars, unitVars, tailVars>>

\* The ChannelInputs Device::poll sends for a channel with the given
\* menu_open flag
PollInputs(open) ==
    IF open THEN {<<"MenuNext">>, <<"MenuPrevious">>, <<"MenuSelect">>, <<"CloseMenu">>}
    ELSE {<<"StepVolume", 1>>, <<"StepVolume", 0 - 1>>, <<"ToggleMuted">>, <<"OpenMenu">>}

\* Device::poll sends a ChannelInput for channel c
PollSends(c, input) ==
    /\ task["control"] = "running"
    /\ c[1] \in DOMAIN devices
    /\ input \in PollInputs(devices[c[1]][c[2]].menu_open)
    /\ SendInput(<<InChannelInput(c, input)>>)
    /\ UNCHANGED <<coreVars, outVars, workerVars, pollVars, taskVars, logVars, linkVars, unitVars>>
    /\ UNCHANGED <<system, run_at, run_log, adapter, adapter_log>>

\* Core::run: block_on(zip(zip(audio_task, control_task), runtime_task))
\* completes when the three tasks have returned
RunReturns ==
    /\ ~run_returned
    /\ \A t \in Tasks : task[t] = "returned"
    /\ run_returned' = TRUE
    /\ UNCHANGED <<coreVars, outVars, control_input, workerVars, pollVars>>
    /\ UNCHANGED <<audio_event, task, logVars, linkVars, unitVars, tailVars>>

\* History of the coordinator's iterations: "handled" when the event was
\* handled and the loop goes on, "send failed" when the task returned the
\* error of a send, "break" when it received None
LogCore ==
    core_log' = IF task'["core"] = "running" THEN "handled"
                ELSE IF control_output' # control_output \/ audio_control' # audio_control
                THEN "send failed"
                ELSE "break"

\* One iteration of the coordinator, with its history
CoreStep == CoreRecv /\ LogCore

\* The three tasks of Core::run.  The backends send while the channels are
\* empty, and either may fail; the coordinator and the backends' receives are
\* scheduled fairly.
NextCancel ==
    \/ \E s \in Ready(SysStreams), st \in StreamStates : AdapterSends(EvStreamOpened(s, st))
    \/ \E s \in Ready(SysStreams) : AdapterSends(EvStreamClosed(s))
    \/ \E s \in Ready(SysStreams), st \in StreamStates : AdapterSends(EvStateChanged(s, st))
    \/ AdapterFails
    \/ RecvAudioControl
    \/ \E infos \in Ready(Plugged(DeviceKeys, NumDevices)) :
          task["control"] = "running" /\ Refresh(infos) /\ UNCHANGED <<logVars, linkVars, unitVars, tailVars>>
    \/ \E c \in Ready(Devices \X PressIndices), input \in PollInputs(TRUE) \cup PollInputs(FALSE) :
          PollSends(c, input) /\ UNCHANGED input_log
    \/ WorkerFails
    \/ RecvControlOutput
    \/ CoreStep
    \/ RunReturns

SpecCancel ==
    /\ Init
    /\ [][NextCancel]_vars
    /\ WF_vars(CoreStep)
    /\ WF_vars(RecvControlOutput)
    /\ WF_vars(RecvAudioControl)
    /\ WF_vars(RunReturns)

\* ------------------------------------------------- the coordinator's menus
\* History of the menus: the channel of the OpenMenu the coordinator handled
\* last and the current_index of the menu the channel had (-1: none); NoOpen
\* once it has handled another event
LogOpen(c) ==
    menu_log' = [chan |-> c,
                 index |-> IF c \in DOMAIN menus THEN menus[c].current_index ELSE 0 - 1]
MenuFrame ==
    UNCHANGED <<control_input, workerVars, pollVars, taskVars, device_log, stream_log, core_log, linkVars, unitVars, tailVars>>

\* The coordinator under every sequence of stream registrations and menu
\* inputs, for any channel at any time
NextMenu ==
    \/ \E s \in Ready(Streams), st \in StreamStates :
          StreamOpened(s, st) /\ menu_log' = NoOpen /\ MenuFrame
    \/ \E s \in Ready(Streams) : StreamClosed(s) /\ menu_log' = NoOpen /\ MenuFrame
    \/ \E c \in Ready(Channels) : OpenMenu(c) /\ LogOpen(c) /\ MenuFrame
    \/ \E c \in Ready(Channels) : CloseMenu(c) /\ menu_log' = NoOpen /\ MenuFrame
    \/ \E c \in Ready(Channels) : MenuNext(c) /\ menu_log' = NoOpen /\ MenuFrame
    \/ \E c \in Ready(Channels) : MenuPrevious(c) /\ menu_log' = NoOpen /\ MenuFrame
    \/ \E c \in Ready(Channels) : MenuSelect(c) /\ menu_log' = NoOpen /\ MenuFrame
    \/ RecvControlOutput

SpecMenu == Init /\ [][NextMenu]_vars

\* ------------------------------------------------ the HID worker's devices
\* The HID worker while devices are plugged and unplugged: refreshes that
\* enumerate any of the keys (one foreign device, NumPlugKeys Rev1 devices),
\* polls of the registered devices, and a coordinator that takes the inputs
NextPlug ==
    \/ \E infos \in Plugged(PlugKeys, NumPlugIds) :
          /\ Len(control_input) <= MaxPlugBacklog
          /\ Refresh(infos) /\ LogDevices /\ UNCHANGED <<menu_log, stream_log, core_log, linkVars, unitVars, tailVars>>
    \/ \E d \in PlugIds, report \in Reports :
          /\ Len(control_input) <= MaxPlugBacklog
          /\ Poll(d, report) /\ LogDevices /\ UNCHANGED <<press_log, menu_log, stream_log, core_log, linkVars, unitVars, tailVars>>
    \/ CoreTakes

SpecPlug == Init /\ [][NextPlug]_vars

\* ===================================================================
\* Properties
\* ===================================================================
\* The messages a step appends to the outbound channels
NewControl == SubSeq(control_output', Len(control_output) + 1, Len(control_output'))
NewAudio == SubSeq(audio_control', Len(audio_control) + 1, Len(audio_control'))

\* The positions of seq holding a StateChanged for channel c
StateChangedTo(seq, c) ==
    {i \in DOMAIN seq : seq[i].chan = c /\ seq[i].out[1] = "StateChanged"}

\* The coordinator handles a SetVolume, StepVolume, SetMuted or ToggleMuted for c
VolumeInput(c) ==
    \/ \E v \in Volumes : SetVolume(c, v)
    \/ \E n \in {-1, 1} : StepVolume(c, n)
    \/ \E m \in BOOLEAN : SetMuted(c, m)
    \/ ToggleMuted(c)

\* The option a MenuSelect for c applies
Selected(c) == menus[c].options[menus[c].current_index + 1]

\* The state the registry holds for a binding's stream, the default when the
\* binding names no registered stream
Resolved(binding) ==
    LET sid == IF binding[1] = "Direct" THEN binding[2]
               ELSE IF binding[1] = "ActiveWindow" THEN window_focus
               ELSE IF binding[1] = "DefaultDevice" THEN default_device
               ELSE NoStream
    IN  IF sid \in DOMAIN streams THEN streams[sid].state
        ELSE [volume |-> 0, muted |-> FALSE]

\* C1: once stream s is closed while channel c is bound Direct(s), a SetVolume,
\* StepVolume, SetMuted or ToggleMuted input for c makes the coordinator emit
\* no AudioControl.
C1_DanglingNoControl ==
    [][\A c \in Channels, s \in Streams :
          (<<c, Direct(s)>> \in bindings /\ s \notin DOMAIN streams /\ VolumeInput(c))
              => audio_control' = audio_control]_vars

\* What the MenuSelect of a dangling Direct(s) must do: bind it and send the
\* default state (volume 0, muted false), then MenuClosed
DanglingSelectPost(c, s) ==
    /\ <<c, Direct(s)>> \in bindings'
    /\ NewControl = <<ChannelOutput(c, OutStateChanged([volume |-> 0, muted |-> FALSE])),
                      ChannelOutput(c, MenuClosed)>>

\* C2: StreamClosed(s) keeps the edges of the binding graph, and while s is
\* not registered every evaluation of Direct(s) the coordinator makes (the
\* update_channel of a MenuSelect that binds Direct(s); a StateChanged for s
\* does not reach update_bound_channels and sends nothing) yields
\* StreamState::default(): volume 0 and muted false.
C2_DanglingDefault ==
    \A s \in Streams :
        /\ ~ENABLED (StreamClosed(s) /\ bindings' # bindings)
        /\ s \notin DOMAIN streams =>
              /\ \A c \in DOMAIN menus :
                    Selected(c) = Direct(s)
                        => ~ENABLED (MenuSelect(c) /\ ~DanglingSelectPost(c, s))
              /\ \A st \in StreamStates :
                    ~ENABLED (StateChanged(s, st) /\ NewControl # <<>>)

\* C2 witness: s was closed, a channel was then bound Direct(s) and the
\* default state was sent to it, while a registered stream is muted
C2_Witness ==
    \E c \in Channels, s \in Streams :
        /\ <<c, Direct(s)>> \in bindings
        /\ s \notin DOMAIN streams
        /\ \E t \in DOMAIN streams : streams[t].state.muted
        /\ control_output = <<ChannelOutput(c, OutStateChanged(DefaultState)),
                              ChannelOutput(c, MenuClosed)>>

\* C3: a StateChanged(sid, state) for a registered stream updates the registry
\* and sends StateChanged(state) to the channels bound Direct(sid), to those
\* bound ActiveWindow if sid = window_focus, and to those bound DefaultDevice
\* if sid = default_device.
C3_StateChangedFanOut ==
    [][\A s \in Streams, st \in StreamStates :
          (StateChanged(s, st) /\ s \in DOMAIN streams)
          => /\ streams'[s].state = st
             /\ \A c \in Channels :
                   Cardinality(StateChangedTo(NewControl, c))
                     = Cardinality({b \in neighbors_of_left(bindings, c) :
                                      \/ b = Direct(s)
                                      \/ b = ActiveWindow /\ window_focus = s
                                      \/ b = DefaultDevice /\ default_device = s})
             /\ \A i \in DOMAIN NewControl : NewControl[i].out = OutStateChanged(st)]_vars

\* C4: in every state where the channels between the coordinator and the
\* backends are empty, for each channel c of a device present in the HID
\* worker, the muted flag the worker stores for c equals the muted flag of
\* the coordinator's evaluation of c's binding, and is false when c is
\* unbound or its binding does not resolve to a registered stream.
C4_IndicatorEcho ==
    (control_output = <<>> /\ control_input = <<>> /\ audio_control = <<>>)
        => \A d \in DOMAIN devices, i \in ChannelIndices :
              LET bound == neighbors_of_left(bindings, <<d, i>>)
              IN  /\ bound = {} => devices[d][i].state.muted = FALSE
                  /\ \A b \in bound : devices[d][i].state.muted = Resolved(b).muted

\* C8: a MenuSelect that rebinds channel c sends exactly one StateChanged for
\* c, carrying the state of the stream the new binding resolves to and the
\* default state when it does not resolve, also when the option is None.
C8_SelectEchoesState ==
    [][\A c \in Channels :
          (c \in DOMAIN menus /\ bindings' # bindings /\ MenuSelect(c))
          => /\ Cardinality(StateChangedTo(NewControl, c)) = 1
             /\ \A i \in StateChangedTo(NewControl, c) :
                   NewControl[i].out = OutStateChanged(Resolved(Selected(c)))]_vars

\* What a MenuSelect for channel c with an open menu must do
SelectPost(c) ==
    /\ bindings' = {e \in bindings : e[1] # c}
                     \cup (IF Selected(c) \in Bindings THEN {<<c, Selected(c)>>} ELSE {})
    /\ menus' = [x \in DOMAIN menus \ {c} |-> menus[x]]
    /\ NewControl # <<>>
    /\ NewControl[Len(NewControl)] = ChannelOutput(c, MenuClosed)
    /\ \A i \in 1 .. (Len(NewControl) - 1) : NewControl[i].out # MenuClosed

\* C9: a MenuSelect for a channel c with an open menu removes every edge of c,
\* adds the edge (c, b) iff the selected option is Some(b), leaves the edges of
\* the other channels, removes the menu of c and emits MenuClosed for c; and
\* every channel has at most one edge in every state.
C9_SelectRebinds ==
    /\ \A c \in DOMAIN menus : ~ENABLED (MenuSelect(c) /\ ~SelectPost(c))
    /\ \A c \in Channels : Cardinality({e \in bindings : e[1] = c}) <= 1

\* C9 witness: a MenuSelect has replaced the binding of one channel while the
\* other channel keeps its edge
C9_Witness ==
    \E c, d \in Channels, s \in Streams :
        /\ c # d
        /\ bindings = {<<c, Direct(s)>>, <<d, ActiveWindow>>}
        /\ c \notin DOMAIN menus
        /\ Len(control_output) = 2
        /\ control_output[2] = ChannelOutput(c, MenuClosed)

\* What a StateChanged(s, S) must send: `count` StateChanged(S) to each channel
\* bound Direct(s), none to a channel bound to other streams or unbound
FanOutPost(s, S, count) ==
    \A c \in Channels :
        /\ <<c, Direct(s)>> \in bindings
              => /\ Cardinality(StateChangedTo(NewControl, c)) = count
                 /\ \A i \in StateChangedTo(NewControl, c) :
                       NewControl[i].out = OutStateChanged(S)
        /\ neighbors_of_left(bindings, c) \subseteq {Direct(x) : x \in Streams \ {s}}
              => StateChangedTo(NewControl, c) = {}

\* C10 (as stated): once MenuSelect has bound channels to Direct(s), a
\* StateChanged(s, S) audio event makes the coordinator send exactly one
\* StateChanged(S) to each channel bound Direct(s), and none to a channel
\* bound to another stream or unbound.
C10_FanOutAlways ==
    \A s \in Streams, S \in StreamStates :
        (\E c \in Channels : <<c, Direct(s)>> \in bindings)
            => ~ENABLED (StateChanged(s, S) /\ ~FanOutPost(s, S, 1))

\* C10 (amended): the same for a StateChanged(s, S) that arrives while s is
\* registered; while s is not registered nothing is sent.
C10_FanOut ==
    \A s \in Streams, S \in StreamStates :
        (\E c \in Channels : <<c, Direct(s)>> \in bindings)
            => ~ENABLED (StateChanged(s, S)
                           /\ ~FanOutPost(s, S, IF s \in DOMAIN streams THEN 1 ELSE 0))

\* C10 witness: both channels are bound Direct(s) and a StateChanged(s, S)
\* has put one message for each of them on the channel
C10_Witness ==
    \E s \in Streams :
        /\ \A c \in Channels : <<c, Direct(s)>> \in bindings
        /\ s \in DOMAIN streams
        /\ streams[s].state.muted
        /\ Len(control_output) = Cardinality(Channels)
        /\ \A c \in Channels : \E i \in DOMAIN control_output :
              control_output[i] = ChannelOutput(c, OutStateChanged(streams[s].state))

\* The presses of channel c that have ended, by the time from the rising-edge
\* report to the falling-edge report
Released(c) == press_log[c].rise # NoTimeout /\ press_log[c].fall # NoTimeout
HoldTime(c) == press_log[c].fall - press_log[c].rise

\* C6: a press whose falling-edge report is read 500 ms or more after its
\* rising-edge report has sent exactly one button input, during the hold:
\* CloseMenu if the channel's menu_open flag was set, else OpenMenu; the
\* release has sent neither MenuSelect nor ToggleMuted.
C6_LongPress ==
    \A c \in Channels :
        (Released(c) /\ HoldTime(c) >= LONG_PRESS_DURATION) =>
            /\ Len(press_log[c].sent) = 1
            /\ press_log[c].sent[1].bit
            /\ press_log[c].sent[1].input =
                   IF press_log[c].sent[1].menu_open THEN "CloseMenu" ELSE "OpenMenu"

\* C7: a press whose reports are all read less than 500 ms after its
\* rising-edge report has sent exactly one button input, with the release:
\* MenuSelect if the channel's menu_open flag was set then, else ToggleMuted;
\* no OpenMenu or CloseMenu.
C7_ShortPress ==
    \A c \in Channels :
        (Released(c) /\ HoldTime(c) < LONG_PRESS_DURATION) =>
            /\ Len(press_log[c].sent) = 1
            /\ ~press_log[c].sent[1].bit
            /\ press_log[c].sent[1].at = press_log[c].fall
            /\ press_log[c].sent[1].input =
                   IF press_log[c].sent[1].menu_open THEN "MenuSelect" ELSE "ToggleMuted"

\* A button released 250 ms after it was pressed, with the menu open
C7_Witness ==
    \E c \in Channels :
        /\ Released(c)
        /\ HoldTime(c) = TimeStep
        /\ HoldTime(c) < LONG_PRESS_DURATION
        /\ Len(press_log[c].sent) = 1
        /\ press_log[c].sent[1].input = "MenuSelect"

\* C5: once one of the three tasks has returned, Core::run eventually returns
\* (each of the other two tasks has observed a closed channel and returned).
C5_Cancellation == (\E t \in Tasks : task[t] = "returned") ~> run_returned

\* The stream id a binding names: Direct(s) names s, ActiveWindow the focused
\* stream, DefaultDevice the default device (NoStream while the slot is empty)
Target(b) ==
    IF b[1] = "Direct" THEN b[2]
    ELSE IF b[1] = "ActiveWindow" THEN window_focus ELSE default_device

\* What a volume or mute input for c must send: one StreamControl with the
\* input's kind and argument for each binding of c that names a stream id,
\* and nothing else
DispatchPost(c, control) ==
    LET named == {e[2] : e \in {x \in bindings : x[1] = c /\ Target(x[2]) # NoStream}}
    IN  /\ Len(NewAudio) = Cardinality(named)
        /\ {NewAudio[i] : i \in DOMAIN NewAudio}
               = {[stream |-> Target(b), control |-> control] : b \in named}
        /\ NewControl = <<>>

\* C11: a SetVolume, StepVolume, SetMuted or ToggleMuted input for channel c
\* makes the coordinator send one StreamControl of the same kind and argument
\* for each binding of c that resolves to a stream id, and none for an unbound
\* channel or a dynamic binding whose slot is empty; with c bound Direct(s)
\* and s registered, a ToggleMuted sends exactly one ToggleMuted for s.
C11_VolumeDispatch ==
    \A c \in Channels :
        /\ \A v \in Volumes :
              ~ENABLED (SetVolume(c, v) /\ ~DispatchPost(c, <<"SetVolume", v>>))
        /\ \A n \in {-1, 1} :
              ~ENABLED (StepVolume(c, n) /\ ~DispatchPost(c, <<"StepVolume", n>>))
        /\ \A m \in BOOLEAN :
              ~ENABLED (SetMuted(c, m) /\ ~DispatchPost(c, <<"SetMuted", m>>))
        /\ ~ENABLED (ToggleMuted(c) /\ ~DispatchPost(c, <<"ToggleMuted">>))
        /\ \A s \in DOMAIN streams :
              <<c, Direct(s)>> \in bindings
                  => ~ENABLED (ToggleMuted(c)
                                 /\ NewAudio # <<[stream |-> s, control |-> <<"ToggleMuted">>]>>)

\* C11 witness: a channel is bound ActiveWindow with stream s focused and
\* registered, and a ToggleMuted for it has put one ToggleMuted for s on the
\* channel to the audio adapter
C11_Witness ==
    \E c \in Channels, s \in DOMAIN streams :
        /\ <<c, ActiveWindow>> \in bindings
        /\ window_focus = s
        /\ audio_control = <<[stream |-> s, control |-> <<"ToggleMuted">>]>>

\* C12: the current_index of every open menu is within 0 .. |options| - 1 and
\* |options| >= 3; a MenuNext at the last index and a MenuPrevious at index 0
\* leave current_index unchanged, otherwise they move it by exactly one (the
\* options, and the other menus, are unchanged).
C12_MenuClamp ==
    \A c \in DOMAIN menus :
        LET index == menus[c].current_index
            last == Len(menus[c].options) - 1
        IN  /\ 0 <= index /\ index <= last
            /\ Len(menus[c].options) >= 3
            /\ ~ENABLED (MenuNext(c)
                           /\ menus' # [menus EXCEPT ![c].current_index =
                                           IF index = last THEN index ELSE index + 1])
            /\ ~ENABLED (MenuPrevious(c)
                           /\ menus' # [menus EXCEPT ![c].current_index =
                                           IF index = 0 THEN index ELSE index - 1])

\* C12 witness: MenuNext inputs have moved the cursor of a menu with an option
\* for every stream to its last option
C12_Witness ==
    \E c \in DOMAIN menus :
        /\ Len(menus[c].options) = 3 + NumStreams
        /\ menus[c].current_index = Len(menus[c].options) - 1

\* What an OpenMenu for c must do: store a menu for c whose options are None,
\* DefaultDevice, ActiveWindow and then one Direct(s) for each registered
\* stream and no other, by name ascending, with current_index 0; send
\* MenuOpened for c
OpenPost(c) ==
    /\ c \in DOMAIN menus'
    /\ LET options == menus'[c].options
       IN  /\ Len(options) = 3 + Cardinality(DOMAIN streams)
           /\ options[1] = <<"None", 0>>
           /\ options[2] = <<"DefaultDevice", 0>>
           /\ options[3] = <<"ActiveWindow", 0>>
           /\ \A s \in DOMAIN streams :
                 Cardinality({i \in 4 .. Len(options) : options[i] = <<"Direct", s>>}) = 1
           /\ \A i \in 4 .. Len(options) :
                 options[i][1] = "Direct" /\ options[i][2] \in DOMAIN streams
           /\ \A i, j \in 4 .. Len(options) :
                 i < j => StreamName(options[i][2]) <= StreamName(options[j][2])
    /\ menus'[c].current_index = 0
    /\ NewControl = <<ChannelOutput(c, MenuOpened)>>

\* C13: OpenMenu builds the menu None, Default Device, Active Window followed
\* by one Direct(s) option for every registered stream and for no other
\* stream, these by name ascending; sets current_index to 0, stores the menu
\* for the channel and sends MenuOpened for the channel.
C13_OpenMenuBuilds == \A c \in Channels : ~ENABLED (OpenMenu(c) /\ ~OpenPost(c))

\* C13 witness: a menu just opened while both streams are registered lists
\* stream 2 (the smaller name) before stream 1
C13_Witness ==
    \E c \in DOMAIN menus :
        /\ menus[c] = [options |-> <<NoBinding, DefaultDevice, ActiveWindow, Direct(2), Direct(1)>>,
                       current_index |-> 0]
        /\ control_output = <<ChannelOutput(c, MenuOpened)>>

\* What an OpenMenu for a channel c that has a menu must do: replace it by a
\* freshly built menu with current_index 0 and leave the other menus
ReopenPost(c) ==
    /\ OpenPost(c)
    /\ DOMAIN menus' = DOMAIN menus
    /\ \A x \in DOMAIN menus \ {c} : menus'[x] = menus[x]

\* C14: the coordinator holds at most one menu per channel (menus maps a
\* channel to its menu); an OpenMenu for a channel that has a menu replaces
\* it in one step by a freshly built menu with current_index 0, and the menus
\* of the other channels are unchanged.
C14_OneMenuPerChannel ==
    /\ DOMAIN menus \subseteq Channels
    /\ \A c \in DOMAIN menus : ~ENABLED (OpenMenu(c) /\ ~ReopenPost(c))

\* C14 witness: an OpenMenu has replaced a menu whose cursor had moved, while
\* another channel keeps a menu whose cursor has moved
C14_Witness ==
    \E c, d \in DOMAIN menus :
        /\ c # d
        /\ menu_log.chan = c
        /\ menu_log.index > 0
        /\ menus[c].current_index = 0
        /\ menus[d].current_index > 0

\* What the failure of a read or write of device d must do: remove d from the
\* worker's registry, leave the other devices, and keep the worker running
FailurePost(d) ==
    /\ d \notin DOMAIN devices'
    /\ d \notin DOMAIN device_keys'
    /\ \A x \in DOMAIN devices \ {d} :
          x \in DOMAIN devices' /\ x \in DOMAIN device_keys'
    /\ task'["control"] = "running"

\* C15: when a read from or a write to a HID device fails, the worker removes
\* the device from devices and device_keys, keeps running and keeps the other
\* devices (so that a later refresh that enumerates it detects it again).
C15_FailureIsolation ==
    \A d \in DOMAIN devices :
        /\ ~ENABLED (PollFails(d, <<>>, FALSE) /\ ~FailurePost(d))
        /\ \A report \in Reports, writing \in BOOLEAN :
              ~ENABLED (PollFails(d, <<report>>, writing) /\ ~FailurePost(d))

\* What a refresh that enumerates the keys infos must send: one DeviceRemoved
\* for each registered device whose key is not enumerated, one DeviceAdded
\* with an id of its own for each enumerated Rev1 device (every key but the
\* foreign device's) whose key is not registered, and nothing else
RefreshPost(infos) ==
    LET gone == {d \in DOMAIN device_keys : device_keys[d] \notin infos}
        fresh == {k \in infos \ {0} : \A d \in DOMAIN device_keys : device_keys[d] # k}
        added == {i \in DOMAIN NewInput : NewInput[i][1] = "DeviceAdded"}
    IN  /\ Len(NewInput) = Cardinality(gone) + Cardinality(fresh)
        /\ \A d \in gone :
              Cardinality({i \in DOMAIN NewInput : NewInput[i] = <<"DeviceRemoved", d>>}) = 1
        /\ Cardinality(added) = Cardinality(fresh)
        /\ \A i \in added :
              /\ NewInput[i][2] \notin DOMAIN device_keys
              /\ NewInput[i][2] >= next_device_id
              /\ NewInput[i][2] \in DOMAIN device_keys'
              /\ device_keys'[NewInput[i][2]] \in fresh
              /\ \A j \in added : j # i => NewInput[j][2] # NewInput[i][2]
        /\ \A k \in fresh : \E i \in added : device_keys'[NewInput[i][2]] = k

EncoderPost(d, report) ==
    \A i \in ChannelIndices :
        LET c == <<d, i>>
            n == report.encoders[i]
            IsEncoder(m) == m[1] = "ChannelInput" /\ m[2] = c
                               /\ m[3][1] \in {"MenuNext", "MenuPrevious", "StepVolume"}
            sent == SelectSeq(NewInput, IsEncoder)
        IN  IF n = 0 THEN sent = <<>>
            ELSE IF devices[d][i].menu_open
            THEN /\ Len(sent) = (IF n > 0 THEN n ELSE 0 - n)
                 /\ \A k \in DOMAIN sent :
                       sent[k][3] = <<IF n > 0 THEN "MenuNext" ELSE "MenuPrevious">>
            ELSE sent = << <<"ChannelInput", c, <<"StepVolume", n>> >> >>

\* C17: for each input report and each channel i with encoders[i] = n # 0 the
\* worker sends n MenuNext (n > 0) or -n MenuPrevious (n < 0) when the
\* channel's menu_open flag is set, and one StepVolume(n) when it is not; for
\* n = 0 it sends no encoder input.
C17_EncoderTranslation ==
    \A d \in DOMAIN devices, report \in Reports :
        ~ENABLED (Poll(d, report) /\ ~EncoderPost(d, report))

\* C17 witness: with the menu_open flag of a channel set, a report with two
\* steps back has sent two MenuPrevious
C17_Witness ==
    \E c \in Channels :
        /\ c[1] \in DOMAIN devices
        /\ devices[c[1]][c[2]].menu_open
        /\ control_input = << <<"ChannelInput", c, <<"MenuPrevious">> >>,
                              <<"ChannelInput", c, <<"MenuPrevious">> >> >>

\* The first MENU_BLINK_DURATION of some MENU_BLINK_PERIOD window counted
\* from epoch holds at time t
InBlinkWindow(t, epoch) ==
    \E w \in 0 .. (MaxTime \div MENU_BLINK_PERIOD) :
        /\ epoch + (w * MENU_BLINK_PERIOD) <= t
        /\ t < epoch + (w * MENU_BLINK_PERIOD) + MENU_BLINK_DURATION

\* After a poll of device d the last Output report written to it has bit i
\* set iff channel i is muted, or, with its menu open, iff muted outside the
\* blink window and not muted inside it; the other devices' reports are as
\* they were
OutputPost(d) ==
    /\ leds'[device_keys[d]] =
           {i \in ChannelIndices :
               IF devices'[d][i].menu_open
               THEN devices'[d][i].state.muted = ~InBlinkWindow(now, menu_blink_timer')
               ELSE devices'[d][i].state.muted}
    /\ \A k \in DOMAIN leds : k # device_keys[d] => leds'[k] = leds[k]

NextLink ==
    \/ \E index \in LinkIndices, step \in Step, overflow_checks \in BOOLEAN :
          update_encoder(index, step, overflow_checks) /\ LinkFrame /\ UNCHANGED link_log
    \/ \E index \in LinkIndices, is_pressed \in BOOLEAN :
          update_button(index, is_pressed) /\ LinkFrame /\ UNCHANGED link_log
    \/ \E polled \in BOOLEAN, pushed \in BOOLEAN,
          pulled \in {<<>>} \cup {<<byte>> : byte \in OutputBytes} :
          UsbHid_poll(polled, pushed, pulled) /\ LinkFrame /\ UNCHANGED link_log

SpecLink == Init /\ [][NextLink]_vars

\* C19: a transport poll in which pull_raw_output returns a byte makes
\* is_led_on(i) the bit i of that byte for every i, and the bits stay until
\* another byte arrives: no other operation of the link changes them
C19_IndicatorMask ==
    /\ \A pushed \in BOOLEAN, byte \in OutputBytes :
           ~ENABLED (/\ UsbHid_poll(TRUE, pushed, <<byte>>)
                     /\ host_link'.report.leds # byte)
    /\ \A polled \in BOOLEAN, pushed \in BOOLEAN :
           ~ENABLED (/\ UsbHid_poll(polled, pushed, <<>>)
                     /\ host_link'.report.leds # host_link.report.leds)
    /\ \A index \in LinkIndices, step \in Step, overflow_checks \in BOOLEAN :
           ~ENABLED (/\ update_encoder(index, step, overflow_checks)
                     /\ host_link'.report.leds # host_link.report.leds)
    /\ \A index \in LinkIndices, is_pressed \in BOOLEAN :
           ~ENABLED (/\ update_button(index, is_pressed)
                     /\ host_link'.report.leds # host_link.report.leds)

\* The indicator mask never changes: is_led_on is false for every index in
\* every state
LedsNeverSet == \A index \in LinkIndices : ~is_led_on(index)

\* update_encoder(index, step) returns with encoders[index] the saturated
\* sum, the other encoders and the buttons as they were
SaturatingPost(index, step) ==
    LET sum == host_link.report.encoders[index] + value(step)
        sat == IF sum > I8Max THEN I8Max ELSE IF sum < I8Min THEN I8Min ELSE sum
    IN  /\ ~panicked'
        /\ host_link'.report.encoders[index] = sat
        /\ \A i \in LinkIndices \ {index} :
               host_link'.report.encoders[i] = host_link.report.encoders[i]
        /\ host_link'.report.buttons = host_link.report.buttons

\* C20: update_encoder(i, step) adds step.value() to report.encoders[i] with
\* saturating i8 arithmetic (127 + Forward = 127, -128 + Backward = -128) and
\* leaves the other encoders and the buttons unchanged
C20_SaturatingAdd ==
    \A index \in LinkIndices, step \in Step, overflow_checks \in BOOLEAN :
        ~ENABLED (/\ update_encoder(index, step, overflow_checks)
                  /\ ~SaturatingPost(index, step))

\* Away from the ends of the i8 range update_encoder adds step.value()
AddsInRange ==
    \A index \in LinkIndices, step \in Step, overflow_checks \in BOOLEAN :
        (host_link.report.encoders[index] + value(step) \in I8Min .. I8Max)
            => ~ENABLED (/\ update_encoder(index, step, overflow_checks)
                         /\ ~SaturatingPost(index, step))

\* ------------------------------------------- the link's staged report
\* Steps staged in one encoder field between two pushes
MaxStaged == 2

\* The link with at most MaxStaged steps staged in a field, with the history
\* of its last operation
NextStage ==
    \/ \E index \in LinkIndices, step \in Step, overflow_checks \in BOOLEAN :
          /\ host_link.report.encoders[index] + value(step) \in (0 - MaxStaged) .. MaxStaged
          /\ update_encoder(index, step, overflow_checks)
          /\ LogLink("update_encoder", FALSE) /\ LinkFrame
    \/ \E index \in LinkIndices, is_pressed \in BOOLEAN :
          update_button(index, is_pressed) /\ LogLink("update_button", FALSE) /\ LinkFrame
    \/ \E polled \in BOOLEAN, pushed \in BOOLEAN,
          pulled \in {<<>>} \cup {<<byte>> : byte \in OutputBytes} :
          /\ UsbHid_poll(polled, pushed, pulled)
          /\ LogLink("poll", polled /\ pushed) /\ LinkFrame

SpecStage == Init /\ [][NextStage]_vars

\* C21: a transport poll in which push_input succeeds leaves every encoder
\* delta of the staged report zero and the buttons as they were
C21_ClearOnPush ==
    \A pulled \in {<<>>} \cup {<<byte>> : byte \in OutputBytes} :
        ~ENABLED (/\ UsbHid_poll(TRUE, TRUE, pulled)
                  /\ ~(/\ \A i \in LinkIndices : host_link'.report.encoders[i] = 0
                       /\ host_link'.report.buttons = host_link.report.buttons))

\* C21 witness: the last operation was a poll whose push succeeded, with
\* steps staged in every field and a button pressed before it; the fields
\* are zero and the button is still pressed
C21_Witness ==
    /\ link_log.op = "poll" /\ link_log.pushed
    /\ \A i \in LinkIndices : link_log.before.encoders[i] # 0
    /\ link_log.before.buttons # {}
    /\ \A i \in LinkIndices : host_link.report.encoders[i] = 0
    /\ host_link.report.buttons = link_log.before.buttons

\* ------------------------------------------- the firmware's encoder
\* Polls of the encoder in a behaviour
MaxPolls == 6

\* One Quadrature encoder under every sequence of pin reads
NextEncoder ==
    \E a \in PinRead, b \in PinRead :
        /\ encoder_log.polls < MaxPolls
        /\ Quadrature_poll(a, b)
        /\ LogEncoder(a, b)
        /\ EncoderFrame

SpecEncoder == Init /\ [][NextEncoder]_vars

\* The step the encoder reports for d = (new_index + 4 - old_index) mod 4
StepOf(d) ==
    CASE d = 0 -> "None"
      [] d = 1 -> "Forward"
      [] d = 2 -> "Skipped"
      [] d = 3 -> "Backward"

\* C22: with the index table (0,0)=0, (1,0)=1, (1,1)=2, (0,1)=3 the first
\* successful poll returns Step::None, every later one None, Forward,
\* Backward or the error Skipped for d = 0, 1, 3, 2, and every poll whose two
\* pin reads succeed stores new_index as old_index, also on Skipped
C22_StepFunction ==
    \A a \in PinRead \ {"Err"}, b \in PinRead \ {"Err"} :
        LET new_index == GrayPosition[<<a, b>>]
            old_index == quadrature.old_index
            result == Quadrature_poll_result(old_index, a, b)
        IN  /\ old_index = NoIndex => result = "None"
            /\ old_index # NoIndex => result = StepOf((new_index + 4 - old_index) % 4)
            /\ ~ENABLED (Quadrature_poll(a, b) /\ quadrature'.old_index # new_index)

\* C22 witness: the last poll returned Skipped with an index stored before
\* it, and the index of its sample is stored now
C22_Witness ==
    /\ encoder_log.result = "Skipped"
    /\ encoder_log.before # NoIndex
    /\ quadrature.old_index = encoder_log.position
    /\ quadrature.old_index # encoder_log.before

\* C23: while no two consecutive samples are two positions apart, the sum of
\* Step::value() over the polls is the net signed number of positions
\* travelled from the first sample, within -N .. N for N ticks; a poll whose
\* sample is two positions from the last returns Skipped and adds nothing
C23_Direction ==
    /\ encoder_log.gray =>
           /\ encoder_log.sum = encoder_log.travelled
           /\ encoder_log.travelled >= 0 - encoder_log.ticks
           /\ encoder_log.travelled <= encoder_log.ticks
    /\ \A a \in PinRead \ {"Err"}, b \in PinRead \ {"Err"} :
           (/\ encoder_log.position # NoIndex
            /\ Moved(encoder_log.position, GrayPosition[<<a, b>>]) = 2)
               => ~ENABLED (/\ Quadrature_poll(a, b) /\ LogEncoder(a, b)
                            /\ ~(/\ encoder_log'.result = "Skipped"
                                 /\ encoder_log'.sum = encoder_log.sum))

\* C23 witness: a walk of five ticks, each one position forward, more than
\* once around the four indices
C23_Witness ==
    /\ encoder_log.gray
    /\ encoder_log.ticks = 5
    /\ encoder_log.travelled = 5
    /\ encoder_log.sum = 5

\* C30: a poll in which reading pin A or pin B fails returns that error and
\* leaves old_index as it was
C30_PinFailure ==
    \A a \in PinRead, b \in PinRead :
        (a = "Err" \/ b = "Err") =>
            /\ Quadrature_poll_result(quadrature.old_index, a, b)
                   = IF a = "Err" THEN "PinA" ELSE "PinB"
            /\ ~ENABLED (Quadrature_poll(a, b) /\ quadrature' # quadrature)

\* C30 witness: the last poll failed on a pin with an index stored, the index
\* is still stored
C30_Witness ==
    /\ encoder_log.result \in {"PinA", "PinB"}
    /\ encoder_log.before # NoIndex
    /\ quadrature.old_index = encoder_log.before
    /\ quadrature.old_index = encoder_log.position

\* C24: the registry holds exactly the stream ids with a StreamOpened not
\* followed by a StreamClosed, each with the state of the latest StateChanged
\* received for it since it was registered, or the initial_state if there was
\* none; a StateChanged for an unregistered stream changes nothing and sends
\* nothing
C24_StreamRegistry ==
    /\ DOMAIN streams = {s \in Streams : stream_log[s].registered}
    /\ \A s \in DOMAIN streams : streams[s].state = stream_log[s].state
    /\ \A s \in Streams \ DOMAIN streams, st \in StreamStates :
           ~ENABLED (/\ StateChanged(s, st)
                     /\ \/ coreVars' # coreVars
                        \/ outVars' # outVars)

\* C24 witness: a registered stream whose last event was a StateChanged to
\* muted: the one message in flight is the StateChanged sent for it to a
\* channel bound Direct to it, and the registry has the state
C24_Witness ==
    \E c \in Channels, s \in Streams :
        /\ stream_log[s].registered
        /\ stream_log[s].state.muted
        /\ s \in DOMAIN streams
        /\ streams[s].state = stream_log[s].state
        /\ neighbors_of_left(bindings, c) = {Direct(s)}
        /\ control_output = <<ChannelOutput(c, OutStateChanged(stream_log[s].state))>>

\* What a change of a dynamic slot to x must send: one StateChanged to every
\* channel bound `binding` and to no other, with the registry state of x, or
\* StreamState::default() when x is absent or unregistered
SlotPost(binding, x) ==
    LET state == IF x # NoStream /\ x \in DOMAIN streams THEN streams[x].state
                 ELSE DefaultState
    IN  /\ \A c \in Channels :
               Cardinality({i \in DOMAIN NewControl : NewControl[i].chan = c})
                   = IF <<c, binding>> \in bindings THEN 1 ELSE 0
        /\ \A i \in DOMAIN NewControl : NewControl[i].out = OutStateChanged(state)
        /\ NewAudio = <<>>

\* C25: WindowFocusChanged(x) sets window_focus to x and sends one
\* StateChanged with the registry state of x to every channel bound
\* ActiveWindow and to no other; DefaultDeviceChanged(x) does the same for
\* default_device and the channels bound DefaultDevice
C25_SlotChange ==
    \A x \in OptStreams :
        /\ ~ENABLED (/\ WindowFocusChanged(x)
                     /\ ~(/\ window_focus' = x
                          /\ default_device' = default_device
                          /\ SlotPost(ActiveWindow, x)))
        /\ ~ENABLED (/\ DefaultDeviceChanged(x)
                     /\ ~(/\ default_device' = x
                          /\ window_focus' = window_focus
                          /\ SlotPost(DefaultDevice, x)))

\* C25 witness: the focus is on a stream that is not registered, one channel
\* is bound ActiveWindow and another DefaultDevice, and the one message in
\* flight is the default StateChanged for the channel bound ActiveWindow
C25_Witness ==
    \E x \in Streams \ DOMAIN streams, c \in Channels, o \in Channels :
        /\ window_focus = x
        /\ neighbors_of_left(bindings, c) = {ActiveWindow}
        /\ neighbors_of_left(bindings, o) = {DefaultDevice}
        /\ control_output = <<ChannelOutput(c, OutStateChanged(DefaultState))>>

\* C26: an iteration of the coordinator in which a send to the HID worker or
\* to the audio adapter fails because the receiver is dropped ends the
\* coordinator's task, and a coordinator whose task has returned handles no
\* further event
C26_ExitOnClosedChannel ==
    /\ ~ENABLED (/\ CoreRecv
                 /\ \/ control_output' # control_output /\ ControlHandleDropped
                    \/ audio_control' # audio_control /\ AudioHandleDropped
                 /\ task'["core"] # "returned")
    /\ task["core"] = "returned" => ~ENABLED CoreRecv

\* C26 witness: the coordinator's task returned on a send to the HID worker
\* whose handle was dropped, while the audio adapter runs
C26_Witness ==
    /\ core_log = "send failed"
    /\ task["core"] = "returned"
    /\ ControlHandleDropped
    /\ ~AudioHandleDropped
    /\ control_output # <<>>

\* C27: when the coordinator handles a DeviceAdded or a DeviceRemoved, the
\* stream registry, the binding graph, the menus, window_focus and
\* default_device stay as they are and nothing is sent: the bindings and the
\* open menu of a removed device's channels remain stored
C27_DeviceEventsInert ==
    /\ \A d \in Devices :
           /\ ~ENABLED (DeviceAdded(d) /\ (coreVars' # coreVars \/ outVars' # outVars))
           /\ ~ENABLED (DeviceRemoved(d) /\ (coreVars' # coreVars \/ outVars' # outVars))
    /\ (control_input # <<>> /\ Head(control_input)[1] \in {"DeviceAdded", "DeviceRemoved"})
           => ~ENABLED (RecvControlInput /\ (coreVars' # coreVars \/ outVars' # outVars))

\* C27 witness: the worker has removed a device and the coordinator has
\* handled its DeviceRemoved; a channel of the device still has its binding
\* and its open menu
C27_Witness ==
    \E c \in Channels :
        /\ c[1] \notin DOMAIN devices
        /\ next_device_id > c[1]
        /\ control_input = <<>>
        /\ neighbors_of_left(bindings, c) # {}
        /\ c \in DOMAIN menus

\* ------------------------------------------------- the binding graph
\* A BiGraph<ChannelId, Binding> under every sequence of its operations
NextGraph ==
    \/ BiGraph_clear /\ LogGraph("clear", <<>>, TRUE) /\ GraphFrame
    \/ \E left \in Channels :
          BiGraph_add_left(left) /\ LogGraph("add_left", <<left>>, TRUE) /\ GraphFrame
    \/ \E right \in Bindings :
          BiGraph_add_right(right) /\ LogGraph("add_right", <<right>>, TRUE) /\ GraphFrame
    \/ \E left \in Channels :
          /\ BiGraph_remove_left(left)
          /\ LogGraph("remove_left", <<left>>, BiGraph_remove_left_returns(left))
          /\ GraphFrame
    \/ \E right \in Bindings :
          /\ BiGraph_remove_right(right)
          /\ LogGraph("remove_right", <<right>>, BiGraph_remove_right_returns(right))
          /\ GraphFrame
    \/ \E left \in Channels, right \in Bindings :
          /\ BiGraph_add_edge(left, right)
          /\ LogGraph("add_edge", <<left, right>>, BiGraph_add_edge_returns(left, right))
          /\ GraphFrame
    \/ \E left \in Channels, right \in Bindings :
          /\ BiGraph_remove_edge(left, right)
          /\ LogGraph("remove_edge", <<left, right>>, BiGraph_remove_edge_returns(left, right))
          /\ GraphFrame

SpecGraph == Init /\ [][NextGraph]_vars

\* ------------------------------------------------- device identifiers
\* DeviceId::new called from several threads, each call in two steps
NextIds ==
    \/ \E t \in Threads : DeviceId_new_fetch(t) /\ IdsFrame
    \/ \E t \in Threads : DeviceId_new_return(t) /\ IdsFrame

SpecIds == Init /\ [][NextIds]_vars

\* The (left, right) pairs the graph joins
EdgesOf(b) ==
    {e \in Channels \X Bindings :
        UnGraphMap_contains_edge(b.graph, EitherLeft(e[1]), EitherRight(e[2]))}

\* Every edge joins one left node and one right node of the graph
Bipartite(b) ==
    \A e \in b.graph.edges :
        \E left \in Channels, right \in Bindings :
            /\ e = {EitherLeft(left), EitherRight(right)}
            /\ e \subseteq b.graph.nodes

\* C28: after any sequence of add_left, add_right, remove_left, remove_right,
\* add_edge, remove_edge and clear, every edge of the binding graph joins one
\* left (channel) node and one right (binding) node; add_edge of a pair that
\* is joined already returns false and leaves the graph as it was, add_edge
\* of a new pair returns true and adds that one edge; remove_left(c) removes
\* exactly the edges at c; neighbors_of_left(c) and neighbors_of_right(b) are
\* exactly the nodes joined to c / b by a current edge
C28_GraphInvariants ==
    /\ Bipartite(bigraph)
    /\ \A left \in Channels, right \in Bindings :
          ~ENABLED (/\ BiGraph_add_edge(left, right)
                    /\ ~ IF <<left, right>> \in EdgesOf(bigraph)
                         THEN /\ ~BiGraph_add_edge_returns(left, right)
                              /\ bigraph' = bigraph
                         ELSE /\ BiGraph_add_edge_returns(left, right)
                              /\ EdgesOf(bigraph') = add_edge(EdgesOf(bigraph), left, right)
                              /\ Cardinality(bigraph'.graph.edges)
                                     = Cardinality(bigraph.graph.edges) + 1)
    /\ \A left \in Channels :
          ~ENABLED (/\ BiGraph_remove_left(left)
                    /\ ~ /\ EdgesOf(bigraph') = remove_left(EdgesOf(bigraph), left)
                         /\ bigraph'.graph.edges
                                = {e \in bigraph.graph.edges : EitherLeft(left) \notin e})
    /\ \A left \in Channels :
          BiGraph_neighbors_of_left(bigraph, left) = neighbors_of_left(EdgesOf(bigraph), left)
    /\ \A right \in Bindings :
          BiGraph_neighbors_of_right(bigraph, right) = neighbors_of_right(EdgesOf(bigraph), right)

\* remove_left took a channel with an edge out of a graph in which another
\* channel has an edge too, and that edge is still there
C28_Witness ==
    /\ graph_log.op = "remove_left"
    /\ graph_log.returned
    /\ \E right \in Bindings : <<graph_log.args[1], right>> \in EdgesOf(graph_log.before)
    /\ \E e \in EdgesOf(bigraph) : e[1] # graph_log.args[1]
    /\ \A right \in Bindings : <<graph_log.args[1], right>> \notin EdgesOf(bigraph)

\* C29: the identifiers DeviceId::new returns are pairwise distinct, each is
\* greater than every identifier returned before its call began, also with
\* calls from several threads, and the call that fetches the last value of
\* the counter panics and returns nothing
C29_DistinctIncreasing ==
    /\ ~ids_log.repeated
    /\ ~ids_log.descending
    /\ \A t \in Threads :
          ~ENABLED (/\ DeviceId_new_return(t)
                    /\ id_calls[t].id = IdMax
                    /\ ~(id_calls'[t] = Unwound /\ ids_log' = ids_log))

\* Until a call fetches the last value of the counter the identifiers are as
\* claimed: none was returned twice or out of order
DistinctBeforeOverflow == ~ids_log.wrapped => ~ids_log.repeated /\ ~ids_log.descending

\* Identifier 0 was returned a second time while the call that fetched the
\* last value of the counter has not reached its panic
C29_Reissued ==
    /\ \E t \in Threads : id_calls[t].at = "fetched" /\ id_calls[t].id = IdMax
    /\ ids_log.repeated
    /\ 0 \in ids_log.handed

\* The same after that call has panicked and its thread has unwound
ReissuedAfterPanic ==
    /\ \E t \in Threads : id_calls[t] = Unwound
    /\ \E t \in Threads : id_calls[t] = Idle
    /\ ids_log.repeated

\* ------------------------------------------- the link's owed steps
\* The link with at most MaxStaged steps staged in a field, with the account
\* of the steps it owes the host
NextRetry ==
    \/ \E index \in LinkIndices, step \in Step, overflow_checks \in BOOLEAN :
          /\ host_link.report.encoders[index] + value(step) \in (0 - MaxStaged) .. MaxStaged
          /\ update_encoder(index, step, overflow_checks)
          /\ LogStaged("update_encoder", FALSE, index, step) /\ LinkFrame
    \/ \E index \in LinkIndices, is_pressed \in BOOLEAN :
          /\ update_button(index, is_pressed)
          /\ LogStaged("update_button", FALSE, index, "None") /\ LinkFrame
    \/ \E polled \in BOOLEAN, pushed \in BOOLEAN,
          pulled \in {<<>>} \cup {<<byte>> : byte \in OutputBytes} :
          /\ UsbHid_poll(polled, pushed, pulled)
          /\ LogStaged("poll", polled /\ pushed, 0, "None") /\ LinkFrame

SpecRetry == Init /\ [][NextRetry]_vars

\* C32: a transport poll in which no report is pushed (the device poll says
\* there is nothing to do, or push_input is not accepted) leaves the staged
\* report, its encoder deltas and its buttons, unchanged; in every state
\* encoders[i] is the sum of the step values passed to update_encoder(i, .)
\* less what the host has accepted, so no step is lost and none is reported
\* twice
C32_StagedSurvive ==
    /\ \A polled \in BOOLEAN, pushed \in BOOLEAN,
          pulled \in {<<>>} \cup {<<byte>> : byte \in OutputBytes} :
          ~(polled /\ pushed) =>
              ~ENABLED (/\ UsbHid_poll(polled, pushed, pulled)
                        /\ host_link'.report # host_link.report)
    /\ \A i \in LinkIndices : host_link.report.encoders[i] = link_log.owed[i]

\* C32 witness: the last operation was a poll whose push was not accepted,
\* with steps staged in every field and a button pressed; the report is as
\* it was and the steps are still owed
C32_Witness ==
    /\ link_log.op = "poll" /\ ~link_log.pushed
    /\ \A i \in LinkIndices : link_log.before.encoders[i] # 0
    /\ link_log.before.buttons # {}
    /\ host_link.report = link_log.before
    /\ \A i \in LinkIndices : link_log.owed[i] = host_link.report.encoders[i]

\* ------------------------------------------- the firmware's main loop
\* Steps staged in one encoder field of the loop between two pushes
MaxRunStaged == 1

\* The reads of pin_b that can follow a read of pin_a: none is made when
\* pin_a failed (`?`), which the model writes as "Err"
ReadsAfter(a) == IF a = "Err" THEN {"Err"} ELSE PinRead

\* System::run with at most MaxRunStaged steps staged in a field
NextRun ==
    \/ \E index \in LinkIndices, a \in PinRead, pin \in PinRead,
          overflow_checks \in BOOLEAN, driven \in BOOLEAN :
          \E b \in ReadsAfter(a) :
          /\ LET result == Quadrature_poll_result(
                               system.channels[index].encoder.old_index, a, b)
             IN  result \in Step =>
                     host_link.report.encoders[index] + value(result)
                         \in (0 - MaxRunStaged) .. MaxRunStaged
          /\ System_update_channel(index, a, b, pin, overflow_checks, driven)
          /\ LogRun(index, a, b, pin) /\ RunFrame
    \/ \E polled \in BOOLEAN, pushed \in BOOLEAN,
          pulled \in {<<>>} \cup {<<byte>> : byte \in OutputBytes} :
          System_poll(polled, pushed, pulled) /\ LogRunPoll /\ RunFrame

SpecRun == Init /\ [][NextRun]_vars

\* update_channel(index, ..) returns with the encoder's delta added iff the
\* encoder's poll returned a Step, bit index of the buttons the pressed level
\* iff the button's poll returned one, the indicator driven to is_led_on(index)
\* when the pin took the write, the next statement of the loop next, and
\* everything of the other channels as it was
ChannelPost(index, a, b, pin, driven) ==
    LET result == Quadrature_poll_result(system.channels[index].encoder.old_index, a, b)
        before == host_link.report
        after == host_link'.report
    IN  /\ ~panicked'
        /\ after.encoders[index] =
               IF result \in Step THEN before.encoders[index] + value(result)
               ELSE before.encoders[index]
        /\ (index \in after.buttons) =
               CASE pin = "Low" -> TRUE
                 [] pin = "High" -> FALSE
                 [] pin = "Err" -> index \in before.buttons
        /\ driven => (system'.channels[index].indicator = is_led_on(index))
        /\ ~driven => (system'.channels[index].indicator = system.channels[index].indicator)
        /\ after.leds = before.leds
        /\ \A i \in LinkIndices \ {index} :
               /\ after.encoders[i] = before.encoders[i]
               /\ (i \in after.buttons) = (i \in before.buttons)
               /\ system'.channels[i] = system.channels[i]
        /\ run_at' = index + 1

\* C33: a pass of the device's main loop handles the channels in index order
\* and then polls the transport once; for each channel the staged encoder
\* delta is updated only if the encoder's poll returned Ok, button bit i is
\* set or cleared to the pressed level only if the button's poll returned Ok,
\* and the indicator is then driven on iff is_led_on(i); an encoder Skipped or
\* pin error on a channel changes nothing staged for its encoder and prevents
\* neither the button and indicator handling of that channel nor the other
\* channels' (the staged deltas away from the ends of the i8 range)
C33_MainLoopPass ==
    /\ run_at \in 0 .. NumLinkChannels
    /\ \A index \in LinkIndices, a \in PinRead, pin \in PinRead,
          overflow_checks \in BOOLEAN, driven \in BOOLEAN :
          \A b \in ReadsAfter(a) :
          LET result == Quadrature_poll_result(
                            system.channels[index].encoder.old_index, a, b)
          IN  /\ ENABLED System_update_channel(index, a, b, pin, overflow_checks, driven)
                     <=> (index = run_at /\ ~panicked)
              /\ (result \in Step =>
                      ~Report_overflows(host_link.report, index, result))
                  => ~ENABLED (/\ System_update_channel(index, a, b, pin,
                                                        overflow_checks, driven)
                               /\ ~ChannelPost(index, a, b, pin, driven))
    /\ \A polled \in BOOLEAN, pushed \in BOOLEAN,
          pulled \in {<<>>} \cup {<<byte>> : byte \in OutputBytes} :
          /\ ENABLED System_poll(polled, pushed, pulled)
                 <=> (run_at = NumLinkChannels /\ ~panicked)
          /\ ~ENABLED (/\ System_poll(polled, pushed, pulled)
                       /\ ~(run_at' = 0 /\ system' = system))

\* C33 witness: the last statement handled channel 0 with a step staged for
\* it, its encoder returned Skipped and its button was read pressed: the
\* delta is as it was, the button bit is set, and channel 1 is next
C33_Witness ==
    /\ run_log.at = 0
    /\ run_log.encoder = "Skipped"
    /\ run_log.button = "Pressed"
    /\ run_log.delta # 0
    /\ ~run_log.pressed
    /\ host_link.report.encoders[0] = run_log.delta
    /\ 0 \in host_link.report.buttons
    /\ run_at = 1

\* ------------------------------------------- menu inputs without a menu
\* What a menu input handled by the coordinator leaves alone
InputFrame ==
    /\ UNCHANGED <<control_input, workerVars, pollVars, taskVars, logVars, linkVars, unitVars>>
    /\ UNCHANGED <<system, run_at, run_log, adapter, adapter_log>>

\* The coordinator under every sequence of stream registrations and menu
\* inputs, for any channel at any time, with the history of the last input
NextClose ==
    \/ \E s \in Ready(Streams), st \in StreamStates :
          StreamOpened(s, st) /\ input_log' = NoInputs /\ InputFrame
    \/ \E s \in Ready(Streams) : StreamClosed(s) /\ input_log' = NoInputs /\ InputFrame
    \/ \E c \in Ready(Channels) : OpenMenu(c) /\ LogInput("OpenMenu", c) /\ InputFrame
    \/ \E c \in Ready(Channels) : CloseMenu(c) /\ LogInput("CloseMenu", c) /\ InputFrame
    \/ \E c \in Ready(Channels) : MenuNext(c) /\ LogInput("MenuNext", c) /\ InputFrame
    \/ \E c \in Ready(Channels) : MenuPrevious(c) /\ LogInput("MenuPrevious", c) /\ InputFrame
    \/ \E c \in Ready(Channels) : MenuSelect(c) /\ LogInput("MenuSelect", c) /\ InputFrame
    \/ RecvControlOutput /\ UNCHANGED input_log

SpecClose == Init /\ [][NextClose]_vars

\* C35: CloseMenu removes the channel's menu and emits MenuClosed for that
\* channel, also when no menu is open for it, and changes nothing else;
\* MenuNext, MenuPrevious and MenuSelect for a channel with no open menu
\* change no coordinator state (registry, bindings, menus, dynamic slots) and
\* emit nothing
C35_CloseMenu ==
    \A c \in Channels :
        /\ ~ENABLED (/\ CloseMenu(c)
                     /\ ~(/\ menus' = close_menu(menus, c)
                          /\ c \notin DOMAIN menus'
                          /\ \A x \in DOMAIN menus \ {c} :
                                 x \in DOMAIN menus' /\ menus'[x] = menus[x]
                          /\ control_output'
                                 = Append(control_output, ChannelOutput(c, MenuClosed))
                          /\ audio_control' = audio_control
                          /\ streams' = streams /\ bindings' = bindings
                          /\ window_focus' = window_focus
                          /\ default_device' = default_device))
        /\ c \notin DOMAIN menus =>
              /\ ~ENABLED (MenuNext(c) /\ <<coreVars, outVars>>' # <<coreVars, outVars>>)
              /\ ~ENABLED (MenuPrevious(c) /\ <<coreVars, outVars>>' # <<coreVars, outVars>>)
              /\ ~ENABLED (MenuSelect(c) /\ <<coreVars, outVars>>' # <<coreVars, outVars>>)

\* C35 witness: CloseMenu was handled for a channel that had no menu, while
\* another channel has one, and MenuClosed for the channel is in the output
C35_Witness ==
    /\ input_log.input = "CloseMenu"
    /\ ~input_log.had_menu
    /\ DOMAIN menus # {}
    /\ control_output # <<>>
    /\ control_output[Len(control_output)] = ChannelOutput(input_log.chan, MenuClosed)

\* C38: the option list of an open menu is the one built when OpenMenu was
\* handled: StreamOpened and StreamClosed leave every menu's options and
\* current_index as they are, and MenuSelect binds the current option of that
\* list, a Direct(s) also when s is not in the registry any more
C38_MenuSnapshot ==
    /\ \A s \in Streams, st \in StreamStates :
          ~ENABLED (StreamOpened(s, st) /\ menus' # menus)
    /\ \A s \in Streams : ~ENABLED (StreamClosed(s) /\ menus' # menus)
    /\ \A c \in DOMAIN menus :
          ~ENABLED (/\ MenuSelect(c)
                    /\ ~(IF Selected(c) = NoBinding
                         THEN neighbors_of_left(bindings', c) = {}
                         ELSE neighbors_of_left(bindings', c) = {Selected(c)}))

\* C38 witness: the last input was a MenuSelect on an open menu, and the
\* channel is bound to Direct(s) for a stream s that is not registered
C38_Witness ==
    /\ input_log.input = "MenuSelect"
    /\ input_log.had_menu
    /\ \E s \in Streams :
          /\ <<input_log.chan, Direct(s)>> \in bindings
          /\ s \notin DOMAIN streams

\* ------------------------------------------- the HID worker's registry
\* The HID worker's refresh, whole and device by device (a device that became
\* present gets the next DeviceId, as Device::detect allocates it), with a
\* coordinator that takes the inputs
NextRegister ==
    \/ \E infos \in Plugged(PlugKeys, NumPlugIds) :
          /\ Len(control_input) <= MaxPlugBacklog
          /\ Refresh(infos) /\ LogDevices
          /\ UNCHANGED <<menu_log, stream_log, core_log, linkVars, unitVars, tailVars>>
    \/ \E device_key \in {k \in PlugKeys : detect(k)} \ RegisteredKeys(device_keys) :
          /\ Len(control_input) <= MaxPlugBacklog
          /\ next_device_id < NumPlugIds
          /\ Register(next_device_id, device_key) /\ LogDevices
          /\ next_device_id' = next_device_id + 1
          /\ UNCHANGED <<menu_log, stream_log, core_log, linkVars, unitVars, tailVars>>
    \/ \E device_id \in PlugIds :
          /\ Len(control_input) <= MaxPlugBacklog
          /\ Unregister(device_id) /\ LogDevices
          /\ UNCHANGED <<menu_log, stream_log, core_log, linkVars, unitVars, tailVars>>
    \/ CoreTakes

SpecRegister == Init /\ [][NextRegister]_vars

\* C34: between the worker's ticks the DeviceIds of the devices map are those
\* of device_keys, device_keys pairs every registered DeviceId with one
\* DeviceKey and no two registered devices share a DeviceKey; inserting a
\* device whose id or key is registered already panics and leaves both maps
\* as they are, and a device that became present is inserted as by
\* insert_no_overwrite under the next DeviceId
C34_DeviceRegistry ==
    /\ DOMAIN devices = DOMAIN device_keys
    /\ \A d1, d2 \in DOMAIN device_keys : device_keys[d1] = device_keys[d2] => d1 = d2
    /\ \A device_id \in PlugIds, device_key \in PlugKeys :
          (device_id \in DOMAIN device_keys \/ device_key \in RegisteredKeys(device_keys))
              => ~ENABLED (/\ Register(device_id, device_key)
                           /\ ~(/\ devices' = devices
                                /\ device_keys' = device_keys
                                /\ control_input' = control_input
                                /\ task'["control"] = "returned"))
    /\ \A device_key \in {k \in PlugKeys : detect(k)} \ RegisteredKeys(device_keys) :
          ~ENABLED (/\ Refresh(RegisteredKeys(device_keys) \cup {device_key})
                    /\ <<device_keys'>>
                           # insert_no_overwrite(device_keys, next_device_id, device_key))

\* C34 witness: two devices are registered under ids that are not the first
\* two, after a device was removed: the maps have the same ids and the keys
\* differ
C34_Witness ==
    /\ Cardinality(DOMAIN device_keys) = 2
    /\ 0 \notin DOMAIN device_keys
    /\ DOMAIN devices = DOMAIN device_keys
    /\ Cardinality(RegisteredKeys(device_keys)) = 2
    /\ \E d \in DOMAIN device_log : device_log[d] = "removed"

\* ------------------------------- the HID worker beside the coordinator
\* Messages that wait in a channel of SpecRace
MaxRaceBacklog == 2

\* The ChannelInputs of SpecRace: those of the button, and MenuNext
RaceInputs == {<<"ToggleMuted">>, <<"OpenMenu">>, <<"MenuSelect">>, <<"CloseMenu">>, <<"MenuNext">>}

\* What an audio event handled by the coordinator leaves alone here
RaceFrame == UNCHANGED <<control_input, workerVars, pollVars, taskVars, logVars, linkVars, unitVars, tailVars>>

\* The HID worker and the coordinator as two threads: the worker's poll sends
\* the input its menu_open flag selects (for the channels with the indices
\* PressIndices) while earlier inputs and the
\* coordinator's outputs are still in the channels; the coordinator takes the
\* inputs one by one; the worker takes the outputs; devices come and go
NextRace ==
    \/ \E c \in Devices \X PressIndices, input \in RaceInputs :
          /\ Len(control_input) < MaxRaceBacklog
          /\ PollSends(c, input) /\ LogSent(c)
    \/ /\ Len(control_output) < MaxRaceBacklog
       /\ Len(audio_control) < MaxRaceBacklog
       /\ RecvControlInput
    \/ RecvControlOutput
    \/ RecvAudioControl
    \/ \E infos \in Plugged(DeviceKeys, NumDevices) :
          /\ Len(control_input) < MaxRaceBacklog
          /\ Refresh(infos) /\ UNCHANGED <<logVars, linkVars, unitVars, tailVars>>
    \/ \E s \in SysStreams, st \in StreamStates :
          Len(control_output) < MaxRaceBacklog /\ StreamOpened(s, st) /\ RaceFrame
    \/ \E s \in SysStreams, st \in StreamStates :
          Len(control_output) < MaxRaceBacklog /\ StateChanged(s, st) /\ RaceFrame
    \/ \E s \in SysStreams :
          Len(control_output) < MaxRaceBacklog /\ StreamClosed(s) /\ RaceFrame

SpecRace == Init /\ [][NextRace]_vars

\* C36: in every state where the control-input and the control-output channel
\* are empty (and no handler is running), for each channel of a device the
\* HID worker has registered, the worker's menu_open flag is true iff the
\* coordinator holds a menu for the channel
C36_FlagAgreement ==
    (control_input = <<>> /\ control_output = <<>>) =>
        \A c \in Channels :
            c[1] \in DOMAIN devices =>
                (devices[c[1]][c[2]].menu_open <=> c \in DOMAIN menus)

\* C36 witness: both channels are empty after the worker has taken outputs,
\* a registered device has a channel with the flag set and a menu, and a
\* channel with neither
C36_Witness ==
    /\ control_input = <<>> /\ control_output = <<>>
    /\ \E c \in Channels :
          /\ c[1] \in DOMAIN devices
          /\ devices[c[1]][c[2]].menu_open /\ c \in DOMAIN menus
          /\ menus[c].current_index > 0
    /\ \E c \in Channels :
          /\ c[1] \in DOMAIN devices
          /\ ~devices[c[1]][c[2]].menu_open /\ c \notin DOMAIN menus

\* C37: the ControlInput the coordinator processes next, when it is a
\* MenuSelect, finds a menu open for its channel, and when it is a ToggleMuted,
\* finds no menu open for its channel, under every interleaving of the HID
\* worker with the coordinator
C37_NoLostShortPress ==
    control_input # <<>> =>
        LET msg == Head(control_input)
        IN  msg[1] = "ChannelInput" =>
                /\ msg[3] = <<"MenuSelect">> => msg[2] \in DOMAIN menus
                /\ msg[3] = <<"ToggleMuted">> => msg[2] \notin DOMAIN menus

\* C39: every ChannelOutput in the control-output channel is for a channel
\* that the HID worker named in an earlier ChannelInput, so its index is below
\* the device's channel count and Device::channel_output stays inside the
\* channel array; the try_recv loop leaves the worker's devices as they are
\* when every output it takes is for a device no longer registered
C39_ChannelIndexSafety ==
    /\ \A i \in DOMAIN control_output :
          /\ control_output[i].chan \in input_log.seen
          /\ control_output[i].chan[2] \in ChannelIndices
    /\ (\A i \in DOMAIN control_output : control_output[i].chan[1] \notin DOMAIN devices)
          => ~ENABLED (RecvControlOutput /\ ~UNCHANGED <<devices, device_keys, next_device_id,
                                                         control_input>>)

\* C39 witness: the worker is about to take a ChannelOutput for a device it
\* has removed
C39_Witness ==
    /\ control_output # <<>>
    /\ \A i \in DOMAIN control_output : control_output[i].chan[1] \notin DOMAIN devices
    /\ task["control"] = "running"

\* ------------------------------------------- the coordinator's two inboxes
\* The coordinator's iteration while its outboxes have room
ProgressStep ==
    /\ Len(control_output) < MaxRaceBacklog
    /\ Len(audio_control) < MaxRaceBacklog
    /\ CoreStep

\* The three tasks of Core::run with both backends sending whenever they
\* like, up to MaxRaceBacklog messages in a channel; either backend may fail
NextProgress ==
    \/ \E s \in SysStreams, st \in StreamStates :
          Len(audio_event) < MaxRaceBacklog /\ AdapterSends(EvStreamOpened(s, st))
    \/ \E s \in SysStreams, st \in StreamStates :
          Len(audio_event) < MaxRaceBacklog /\ AdapterSends(EvStateChanged(s, st))
    \/ AdapterFails
    \/ RecvAudioControl
    \/ \E infos \in Plugged(DeviceKeys, NumDevices) :
          /\ task["control"] = "running"
          /\ Len(control_input) < MaxRaceBacklog
          /\ Refresh(infos) /\ UNCHANGED <<logVars, linkVars, unitVars, tailVars>>
    \/ \E c \in Devices \X PressIndices, input \in RaceInputs :
          /\ Len(control_input) < MaxRaceBacklog
          /\ PollSends(c, input) /\ UNCHANGED input_log
    \/ WorkerFails
    \/ RecvControlOutput
    \/ ProgressStep

\* The coordinator's loop and the backends' receives keep running
SpecProgress ==
    /\ Init
    /\ [][NextProgress]_vars
    /\ WF_vars(ProgressStep)
    /\ WF_vars(RecvControlOutput)
    /\ WF_vars(RecvAudioControl)

AdapterOutcomes == {"opened", "not opened", "stream_info failed", "id failed"}

\* The audio adapter under every sequence of notifications of the operating
\* system and of StreamControls for any stream id, registered or not; the
\* coordinator takes the adapter's events
NextAdapter ==
    \/ \E sid \in AdapterStreams, control \in AdapterControls :
          Len(audio_control) < MaxAdapterBacklog /\ CoordinatorSends(sid, control)
    \/ AdapterControl
    \/ \E dev \in OsDevices, state \in OsStates, outcome \in AdapterOutcomes :
          /\ adapter.next_stream_id <= MaxStreamIds
          /\ Len(audio_event) < MaxAdapterBacklog
          /\ AdapterDeviceAdded(dev, state, outcome)
    \/ \E dev \in OsDevices :
          Len(audio_event) < MaxAdapterBacklog /\ AdapterDeviceRemoved(dev)
    \/ \E dev \in OsDevices, active \in BOOLEAN, outcome \in AdapterOutcomes :
          Len(audio_event) < MaxAdapterBacklog
              /\ AdapterDeviceStateChanged(dev, active, outcome)
    \/ \E sid \in AdapterStreams, state \in OsStates :
          Len(audio_event) < MaxAdapterBacklog /\ AdapterStateChanged(sid, state)
    \/ \E parent \in AdapterStreams, session \in OsSessions, state \in OsStates,
          outcome \in AdapterOutcomes :
          /\ adapter.next_stream_id <= MaxStreamIds
          /\ Len(audio_event) < MaxAdapterBacklog
          /\ AdapterSessionCreated(parent, session, state, outcome)
    \/ \E sid \in AdapterStreams :
          Len(audio_event) < MaxAdapterBacklog /\ AdapterSessionDisconnected(sid)
    \/ CoreStep /\ UNCHANGED <<adapter, adapter_log>>

SpecAdapter == Init /\ [][NextAdapter]_vars

\* The stream ids the adapter has registered, as a device or as a session
Registered == DOMAIN adapter.devices \cup DOMAIN adapter.sessions

\* C31: when the control the audio adapter takes next names a stream id that
\* is neither a registered device nor a registered session, the iteration
\* takes the control off the channel and changes nothing else: no stream's
\* state, none of the registries, no event sent, the task still running
C31_UnknownStream ==
    (audio_control # <<>> /\ Head(audio_control).stream \notin Registered) =>
        ~ENABLED (AdapterControl
                    /\ ~(/\ adapter' = adapter
                         /\ audio_event' = audio_event
                         /\ task' = task
                         /\ audio_control' = Tail(audio_control)))

\* C31 witness: the adapter, with a device registered, has just dropped a
\* control for the stream id of a device it has removed, and runs on
C31_Witness ==
    /\ adapter_log.kind = "control" /\ adapter_log.known = "unknown"
    /\ adapter_log.stream \notin Registered
    /\ adapter_log.stream < adapter.next_stream_id
    /\ adapter.devices # << >>
    /\ task["audio"] = "running"
====
